---- MODULE Spec2Model ----
(***************************************************************************)
(* A model of the JS++ front-end and evaluator: Lexer (lexer.h), Parser    *)
(* (parser.h, parser.cpp), Interpreter (interpreter.h) and the driver      *)
(* (entry.cpp).                                                            *)
(*                                                                         *)
(* A std::string is a sequence of one-character strings, so a position in  *)
(* it can be read.  C++ indexes from 0 and TLA+ from 1: the cursor         *)
(* `current` keeps its C++ value and source[current] is written            *)
(* source[current + 1].                                                    *)
(*                                                                         *)
(* A C++ exception in flight is the field `err` of the parser state or     *)
(* `fault` of the interpreter state: once it is set every operator hands   *)
(* the state back untouched, which is what stack unwinding does, until the *)
(* driver's catch clause sees it.                                          *)
(***************************************************************************)
EXTENDS Integers, Sequences, FiniteSets, TLC

VARIABLES
    lexer,          \* the Lexer object: source, current, line, column, start, line_start, column_start
    token,          \* the Token the last direct call of Lexer::nextToken returned
    currentToken,   \* Parser::currentToken
    node,           \* entry.cpp main: the local `node` of the driver loop
    functions,      \* Interpreter::functions
    variables,      \* Interpreter::variables
    output,         \* the lines written to std::cout
    errout,         \* the lines written to std::cerr
    trace,          \* history: the calls, returns and statements the Interpreter went through
    pc              \* the position of the client of these objects

vars == <<lexer, token, currentToken, node, functions, variables, output, errout, trace, pc>>

(***************************************************************************)
(* Bounds of the model.                                                    *)
(***************************************************************************)
\* the number of nested Lexer::nextToken frames the call stack holds
MaxStack == 4
\* the loop turns and function calls one driver step follows before it reports
\* the program as still running
MaxSteps == 16
\* the longest source buffer the lexer specification enumerates
MaxSrcLen == 3

(***************************************************************************)
(* lexer.h                                                                 *)
(***************************************************************************)
\* what peek() and peekNext() return past the end of the buffer: '\0'
NUL == ""

Lower == {"a","b","c","d","e","f","g","h","i","j","k","l","m",
          "n","o","p","q","r","s","t","u","v","w","x","y","z"}
Upper == {"A","B","C","D","E","F","G","H","I","J","K","L","M",
          "N","O","P","Q","R","S","T","U","V","W","X","Y","Z"}
Digits == {"0","1","2","3","4","5","6","7","8","9"}

isAlpha(c) == c \in Lower \/ c \in Upper \/ c = "_"
isdigit(c) == c \in Digits
isAlphaNumeric(c) == isAlpha(c) \/ isdigit(c)

\* std::string::substr(pos, n)
substr(s, pos, n) == SubSeq(s, pos + 1, IF pos + n > Len(s) THEN Len(s) ELSE pos + n)

Lexer(source) ==
    [source |-> source, current |-> 0, line |-> 1, column |-> 1,
     start |-> 0, line_start |-> 1, column_start |-> 1]

isAtEnd(l) == l.current >= Len(l.source)

\* the lexer after advance(); the character advance() returns is peek() before it
advance(l) ==
    IF isAtEnd(l) THEN l
    ELSE IF l.source[l.current + 1] = "\n"
         THEN [l EXCEPT !.current = @ + 1, !.line = @ + 1, !.column = 1]
         ELSE [l EXCEPT !.current = @ + 1, !.column = @ + 1]

peek(l) == IF isAtEnd(l) THEN NUL ELSE l.source[l.current + 1]
peekNext(l) == IF l.current + 1 >= Len(l.source) THEN NUL ELSE l.source[l.current + 2]

\* match(expected): whether it returns true, and the lexer it leaves
matches(l, expected) == ~isAtEnd(l) /\ l.source[l.current + 1] = expected
match(l, expected) == IF matches(l, expected) THEN advance(l) ELSE l

Token(type, lexeme, line, column) ==
    [type |-> type, lexeme |-> lexeme, line |-> line, column |-> column]

makeToken(l, type) ==
    Token(type, substr(l.source, l.start, l.current - l.start), l.line_start, l.column_start)

MsgUnexpectedCharacter ==
    <<"U","n","e","x","p","e","c","t","e","d"," ","c","h","a","r","a","c","t","e","r">>
MsgUnterminatedString ==
    <<"U","n","t","e","r","m","i","n","a","t","e","d"," ","s","t","r","i","n","g">>

errorToken(l, message) == Token("Unexpected", message, l.line_start, l.column_start)

\* the comment loop of skipWhitespace: while (peek() != '\n' && !isAtEnd()) advance();
RECURSIVE skipComment(_)
skipComment(l) ==
    IF peek(l) # "\n" /\ ~isAtEnd(l) THEN skipComment(advance(l)) ELSE l

RECURSIVE skipWhitespace(_)
skipWhitespace(l) ==
    LET c == peek(l) IN
    IF c \in {" ", "\r", "\t"} THEN skipWhitespace(advance(l))
    ELSE IF c = "\n" THEN skipWhitespace(advance(l))
    ELSE IF c = "/"
         THEN IF peekNext(l) = "/" THEN skipWhitespace(skipComment(l)) ELSE l
         ELSE l

keywords ==
    { <<<<"l","e","t">>, "Let">>,
      <<<<"c","o","n","s","t">>, "Const">>,
      <<<<"c","l","a","s","s">>, "Class">>,
      <<<<"f","u","n","c","t","i","o","n">>, "Function">>,
      <<<<"i","n","t">>, "Int">>,
      <<<<"d","o","u","b","l","e">>, "Double">>,
      <<<<"b","o","o","l">>, "Bool">>,
      <<<<"f","o","r">>, "For">>,
      <<<<"w","h","i","l","e">>, "While">>,
      <<<<"i","n">>, "In">>,
      <<<<"p","r","i","n","t">>, "Print">>,
      <<<<"r","e","t","u","r","n">>, "Return">> }

\* the loop of identifier(): while (isAlphaNumeric(peek())) advance();
RECURSIVE skipAlphaNumeric(_)
skipAlphaNumeric(l) == IF isAlphaNumeric(peek(l)) THEN skipAlphaNumeric(advance(l)) ELSE l

\* the loops of number(): while (isdigit(peek())) advance();
RECURSIVE skipDigits(_)
skipDigits(l) == IF isdigit(peek(l)) THEN skipDigits(advance(l)) ELSE l

\* the loop of stringLiteral()
RECURSIVE skipString(_)
skipString(l) ==
    IF peek(l) # "\"" /\ ~isAtEnd(l)
    THEN skipString(advance(IF peek(l) = "\\" THEN advance(l) ELSE l))
    ELSE l

\* what a call of nextToken hands back: the lexer it leaves and the token,
\* or returned = FALSE when the call never returns
Returned(l, t) == [lexer |-> l, token |-> t, returned |-> TRUE]
NoToken == Token("None", <<>>, 0, 0)
NoReturn(l) == [lexer |-> l, token |-> NoToken, returned |-> FALSE]

\* identifier() without the look-up in keywords
identifier_withoutKeywords(l) ==
    Returned(skipAlphaNumeric(l), makeToken(skipAlphaNumeric(l), "Identifier"))

identifier(l) ==
    LET e == skipAlphaNumeric(l)
        text == substr(e.source, e.start, e.current - e.start)
    IN IF \E kw \in keywords : kw[1] = text
       THEN Returned(e, Token((CHOOSE kw \in keywords : kw[1] = text)[2], text,
                              e.line_start, e.column_start))
       ELSE Returned(e, makeToken(e, "Identifier"))

number(l) ==
    LET d == skipDigits(l)
        e == IF peek(d) = "." /\ isdigit(peekNext(d)) THEN skipDigits(advance(d)) ELSE d
    IN Returned(e, makeToken(e, "Number"))

\* stringLiteral() without the test for the end of the buffer
stringLiteral_withoutEndTest(l) ==
    Returned(advance(skipString(l)), makeToken(advance(skipString(l)), "String"))

stringLiteral(l) ==
    LET e == skipString(l) IN
    IF isAtEnd(e) THEN Returned(e, errorToken(e, MsgUnterminatedString))
    ELSE Returned(advance(e), makeToken(advance(e), "String"))

RECURSIVE nextToken(_, _)

\* depth: the nextToken frames already on the stack
handleSemicolon(l, depth) ==
    IF l.current > 1 /\ l.source[l.current - 1] = "\n"
    THEN nextToken([l EXCEPT !.current = @ - 1], depth + 1)
    ELSE Returned(l, makeToken(l, "Semicolon"))

\* the switch of nextToken on the character c that advance() returned; a is the
\* lexer after that advance()
switch(c, a, depth) ==
    CASE c = "(" -> Returned(a, makeToken(a, "LParen"))
      [] c = ")" -> Returned(a, makeToken(a, "RParen"))
      [] c = "{" -> Returned(a, makeToken(a, "LBrace"))
      [] c = "[" -> Returned(a, makeToken(a, "LBracket"))
      [] c = "<" -> Returned(a, makeToken(a, "Less"))
      \* case '<=': a two-character constant compared with one character
      [] c = "<=" -> Returned(a, makeToken(a, "LessEqual"))
      [] c = ">" -> Returned(a, makeToken(a, "Greater"))
      [] c = ">=" -> Returned(a, makeToken(a, "GreaterEqual"))
      [] c = "]" -> Returned(a, makeToken(a, "RBracket"))
      [] c = "}" -> Returned(a, makeToken(a, "RBrace"))
      [] c = ";" -> handleSemicolon(a, depth)
      [] c = ":" -> Returned(a, makeToken(a, "Colon"))
      [] c = "," -> Returned(a, makeToken(a, "Comma"))
      [] c = "=" -> IF matches(a, "=")
                    THEN Returned(match(a, "="), makeToken(match(a, "="), "EqualEqual"))
                    ELSE Returned(a, makeToken(a, "Equal"))
      [] c = "+" -> IF matches(a, "+")
                    THEN Returned(match(a, "+"), makeToken(match(a, "+"), "PlusPlus"))
                    ELSE Returned(a, makeToken(a, "Plus"))
      [] c = "-" -> IF matches(a, "-")
                    THEN Returned(match(a, "-"), makeToken(match(a, "-"), "MinusMinus"))
                    ELSE Returned(a, makeToken(a, "Minus"))
      [] c = "*" -> Returned(a, makeToken(a, "Star"))
      [] c = "/" -> Returned(a, makeToken(a, "Slash"))
      [] OTHER -> Returned(a, errorToken(a, MsgUnexpectedCharacter))

\* nextToken from char c = advance() on: c is the character read, a the lexer after it
classify(c, a, depth) ==
    CASE isAlpha(c) -> identifier(a)
      [] isdigit(c) -> number(a)
      [] c = "\"" -> stringLiteral(a)
      [] OTHER -> switch(c, a, depth)

\* nextToken after skipWhitespace(): s is the lexer that skipWhitespace() left
scan(s, depth) ==
    IF isAtEnd(s)
    THEN Returned([s EXCEPT !.start = s.current, !.line_start = s.line,
                            !.column_start = s.column],
                  makeToken([s EXCEPT !.start = s.current, !.line_start = s.line,
                                      !.column_start = s.column], "End"))
    ELSE classify(peek(s),
                  advance([s EXCEPT !.start = s.current, !.line_start = s.line,
                                    !.column_start = s.column]),
                  depth)

nextToken(l0, depth) ==
    IF depth >= MaxStack THEN NoReturn(l0)
    ELSE scan(skipWhitespace(l0), depth)

(***************************************************************************)
(* parser.h: the AST nodes.  typeName is the dynamic type of the node, the *)
(* one std::dynamic_pointer_cast tests; Null is a null shared_ptr.         *)
(***************************************************************************)
Null == [typeName |-> "Null"]

FunctionDecl(line, column, name, params, returnType, body) ==
    [typeName |-> "FunctionDecl", line |-> line, column |-> column, name |-> name,
     params |-> params, returnType |-> returnType, body |-> body]
ReturnStmt(line, column, expression) ==
    [typeName |-> "ReturnStmt", line |-> line, column |-> column, expression |-> expression]
PrintStmt(line, column, expression) ==
    [typeName |-> "PrintStmt", line |-> line, column |-> column, expression |-> expression]
BinaryExpr(line, column, op, left, right) ==
    [typeName |-> "BinaryExpr", line |-> line, column |-> column, op |-> op,
     left |-> left, right |-> right]
Identifier(line, column, name) ==
    [typeName |-> "Identifier", line |-> line, column |-> column, name |-> name]
VarDecl(line, column, name, type, initializer) ==
    [typeName |-> "VarDecl", line |-> line, column |-> column, name |-> name,
     type |-> type, initializer |-> initializer]
AssignStmt(line, column, name, value) ==
    [typeName |-> "AssignStmt", line |-> line, column |-> column, name |-> name, value |-> value]
ExpressionStmt(line, column, expr) ==
    [typeName |-> "ExpressionStmt", line |-> line, column |-> column, expr |-> expr]
NumberLiteral(line, column, value) ==
    [typeName |-> "NumberLiteral", line |-> line, column |-> column, value |-> value]
ForStmt(line, column, init, condition, increment, body) ==
    [typeName |-> "ForStmt", line |-> line, column |-> column, init |-> init,
     condition |-> condition, increment |-> increment, body |-> body]
ForEachStmt(line, column, varName, varType, iterable, body) ==
    [typeName |-> "ForEachStmt", line |-> line, column |-> column, varName |-> varName,
     varType |-> varType, iterable |-> iterable, body |-> body]
WhileStmt(line, column, condition, body) ==
    [typeName |-> "WhileStmt", line |-> line, column |-> column, condition |-> condition,
     body |-> body]
IndexExpr(line, column, array, index) ==
    [typeName |-> "IndexExpr", line |-> line, column |-> column, array |-> array, index |-> index]
CallExpr(line, column, funcName, args) ==
    [typeName |-> "CallExpr", line |-> line, column |-> column, funcName |-> funcName,
     args |-> args]
ArrayLiteral(line, column, elements) ==
    [typeName |-> "ArrayLiteral", line |-> line, column |-> column, elements |-> elements]

(***************************************************************************)
(* parser.cpp.  A parser state is [lexer, currentToken, err, ub]: the      *)
(* Lexer the Parser refers to, Parser::currentToken, the exception in      *)
(* flight and the outcome this run has for undefined behaviour.  A parse   *)
(* function gives [p, val]: the parser state it leaves and what it         *)
(* returns.                                                                *)
(***************************************************************************)
NoErr == [what |-> "none"]
\* a call that never returns (unbounded recursion in the lexer)
Diverged == [what |-> "no return"]
\* the process is killed (invalid memory access, arithmetic trap)
Crashed == [what |-> "crash"]

\* the outcomes of undefined behaviour: the process dies, or it goes on with
\* whatever the invalid read delivers
GarbageValues == {-1, 0, 1}
UBOutcomes == {[crash |-> TRUE, value |-> 0]} \cup {[crash |-> FALSE, value |-> g] : g \in GarbageValues}

Failed(p) == p.err # NoErr
R(p, val) == [p |-> p, val |-> val]
Throw(p, e) == IF Failed(p) THEN p ELSE [p EXCEPT !.err = e]

\* tokenTypeToString
tokenTypeToString(type) == IF type = "Print" THEN "print" ELSE type

\* The functions of the Parser that call one another in cycles are called through
\* Parse: c.f names the function, c.p is the parser state it is called in and c.a
\* are its other arguments.  The definition of such a function is name_body.
RECURSIVE Parse(_)
Parser_advance(p) ==
    Parse([f |-> "Parser_advance", p |-> p, a |-> <<>>])
parseExpression(p) ==
    Parse([f |-> "parseExpression", p |-> p, a |-> <<>>])
parseStatement(p) ==
    Parse([f |-> "parseStatement", p |-> p, a |-> <<>>])
parseTopLevel(p) ==
    Parse([f |-> "parseTopLevel", p |-> p, a |-> <<>>])
parseBlock(p) ==
    Parse([f |-> "parseBlock", p |-> p, a |-> <<>>])
blockStatement(p) ==
    Parse([f |-> "blockStatement", p |-> p, a |-> <<>>])

\* Parser::advance(): currentToken = lexer.nextToken()
took(p, r) ==
    IF r.returned
    THEN [p EXCEPT !.lexer = r.lexer, !.currentToken = r.token]
    ELSE [p EXCEPT !.lexer = r.lexer, !.err = Diverged]

Parser_advance_body(p) ==
    IF Failed(p) THEN p ELSE took(p, nextToken(p.lexer, 0))

\* Parser::Parser(Lexer&)
Parser(l, ub) ==
    Parser_advance([lexer |-> l, currentToken |-> NoToken, err |-> NoErr, ub |-> ub])

expect(p, type, msg) ==
    CASE Failed(p) -> p
      [] ~Failed(p) /\ p.currentToken.type # type ->
            Throw(p, [what |-> msg, got |-> tokenTypeToString(p.currentToken.type),
                      line |-> p.currentToken.line, column |-> p.currentToken.column])
      [] OTHER -> Parser_advance(p)

\* the [] suffix of parseType, p1 being the parser after the type keyword
typeSuffix(p1, type) ==
    IF ~Failed(p1) /\ p1.currentToken.type = "LBracket"
    THEN R(expect(Parser_advance(p1), "RBracket", "Expected ']' after '[' in type"),
           type \o <<"[", "]">>)
    ELSE R(p1, type)

parseType(p) ==
    CASE Failed(p) -> R(p, <<>>)
      [] ~Failed(p) /\ p.currentToken.type \notin {"Int", "Double", "Bool"} ->
            R(Throw(p, [what |-> "Expected type",
                        got |-> tokenTypeToString(p.currentToken.type)]), <<>>)
      [] OTHER -> typeSuffix(Parser_advance(p), p.currentToken.lexeme)

parseParam(p) ==
    CASE Failed(p) -> R(p, <<>>)
      [] ~Failed(p) /\ p.currentToken.type # "Identifier" ->
            R(Throw(p, [what |-> "Expected identifier in parameter"]), <<>>)
      [] OTHER ->
            LET name == p.currentToken.lexeme
                p1 == expect(Parser_advance(p), "Colon", "Expected colon after parameter name")
                t == parseType(p1)
            IN R(t.p, <<name, t.val>>)

\* std::stoi on the lexeme of a Number token: the value of its leading digits,
\* std::out_of_range when that is more than INT_MAX
INT_MAX == 2147483647
DigitChars == <<"0","1","2","3","4","5","6","7","8","9">>
DigitValue(c) == (CHOOSE i \in 1..10 : DigitChars[i] = c) - 1

\* -1 stands for std::out_of_range
RECURSIVE stoiFrom(_, _, _)
stoiFrom(s, i, acc) ==
    IF i > Len(s) \/ ~isdigit(s[i]) THEN acc
    ELSE LET d == DigitValue(s[i]) IN
         IF acc > (INT_MAX - d) \div 10 THEN -1
         ELSE stoiFrom(s, i + 1, acc * 10 + d)
stoi(s) == stoiFrom(s, 1, 0)

BinaryOperators ==
    {"Plus", "Minus", "Star", "Slash", "Less", "Greater",
     "EqualEqual", "BangEqual", "LessEqual", "GreaterEqual"}

\* the comma-separated list of expressions: do { push_back(parseExpression());
\* if (Comma) advance(); else break; } while (true);
RECURSIVE expressionList(_, _)
expressionList(p, list) ==
    IF Failed(p) THEN R(p, list)
    ELSE LET e == parseExpression(p) IN
         CASE Failed(e.p) -> R(e.p, list)
           [] ~Failed(e.p) /\ e.p.currentToken.type = "Comma" ->
                 expressionList(Parser_advance(e.p), Append(list, e.val))
           [] OTHER -> R(e.p, Append(list, e.val))

\* the arguments of a call or the elements of an array literal, up to the closing token
argumentList(p, closing) ==
    IF ~Failed(p) /\ p.currentToken.type # closing THEN expressionList(p, <<>>)
    ELSE R(p, <<>>)

\* the while (true) loop after an identifier: calls and index suffixes
RECURSIVE postfix(_, _)
postfix(p, left) ==
    CASE Failed(p) -> R(p, left)
      [] ~Failed(p) /\ p.currentToken.type = "LParen" ->
            LET line == p.currentToken.line
                col == p.currentToken.column
                a == argumentList(Parser_advance(p), "RParen")
                p1 == expect(a.p, "RParen", "Expected ')' after function call")
            IN CASE Failed(p1) -> R(p1, left)
                 \* dynamic_pointer_cast<Identifier>(left)->name with left not an Identifier
                 [] ~Failed(p1) /\ left.typeName # "Identifier" ->
                       IF p1.ub.crash THEN R(Throw(p1, Crashed), left)
                       ELSE postfix(p1, CallExpr(line, col, <<>>, a.val))
                 [] OTHER -> postfix(p1, CallExpr(line, col, left.name, a.val))
      [] ~Failed(p) /\ p.currentToken.type = "LBracket" ->
            LET line == p.currentToken.line
                col == p.currentToken.column
                i == parseExpression(Parser_advance(p))
                p1 == expect(i.p, "RBracket", "Expected ']' after array index")
            IN IF Failed(p1) THEN R(p1, left)
               ELSE postfix(p1, IndexExpr(line, col, left, i.val))
      [] OTHER -> R(p, left)

\* the first part of parseBinaryExpression: one primary
primaryAt(p, t) ==
    CASE t.type = "Identifier" ->
            postfix(Parser_advance(p), Identifier(t.line, t.column, t.lexeme))
      [] t.type = "Number" ->
            IF stoi(t.lexeme) = -1
            THEN R(Throw(p, [what |-> "stoi"]), Null)
            ELSE R(Parser_advance(p), NumberLiteral(t.line, t.column, stoi(t.lexeme)))
      [] t.type = "LParen" ->
            LET e == parseExpression(Parser_advance(p))
            IN R(expect(e.p, "RParen", "Expected ')' after expression"), e.val)
      [] t.type = "LBracket" ->
            LET a == argumentList(Parser_advance(p), "RBracket")
            IN R(expect(a.p, "RBracket", "Expected ']' after array literal"),
                 ArrayLiteral(t.line, t.column, a.val))
      [] OTHER ->
            R(Throw(p, [what |-> "Unsupported expression",
                        got |-> tokenTypeToString(t.type), lexeme |-> t.lexeme]), Null)

primary(p) == IF Failed(p) THEN R(p, Null) ELSE primaryAt(p, p.currentToken)

\* the while loop of parseBinaryExpression over the operator tokens
RECURSIVE binaryLoop(_, _)
binaryLoop(p, left) ==
    IF ~Failed(p) /\ p.currentToken.type \in BinaryOperators
    THEN LET t == p.currentToken
             r == parseExpression(Parser_advance(p))
         IN IF Failed(r.p) THEN R(r.p, left)
            ELSE binaryLoop(r.p, BinaryExpr(t.line, t.column, t.lexeme, left, r.val))
    ELSE R(p, left)

parseBinaryExpression(p) ==
    LET l == primary(p) IN binaryLoop(l.p, l.val)

\* parseExpression after parseBinaryExpression has returned left and left the parser q
assignment(q, left) ==
    CASE Failed(q) -> R(q, Null)
      [] ~Failed(q) /\ q.currentToken.type = "Equal" ->
            IF left.typeName # "Identifier"
            THEN R(Throw(q, [what |-> "Left side of assignment must be an identifier"]), Null)
            ELSE LET v == parseExpression(Parser_advance(q))
                 IN R(v.p, AssignStmt(q.currentToken.line, q.currentToken.column,
                                      left.name, v.val))
      [] ~Failed(q) /\ q.currentToken.type \in {"PlusPlus", "MinusMinus"} ->
            IF left.typeName # "Identifier"
            THEN R(Throw(q, [what |-> "Left side of increment/decrement must be an identifier"]),
                   Null)
            ELSE LET line == q.currentToken.line
                     col == q.currentToken.column
                     op == IF q.currentToken.type = "PlusPlus" THEN <<"+">> ELSE <<"-">>
                     one == NumberLiteral(line, col, 1)
                     bin == BinaryExpr(line, col, op, left, one)
                 IN R(Parser_advance(q), AssignStmt(line, col, left.name, bin))
      [] OTHER -> R(q, left)

parseExpression_body(p) ==
    IF Failed(p) THEN R(p, Null)
    ELSE LET b == parseBinaryExpression(p) IN assignment(b.p, b.val)

\* return expr ; (parseStatement 226-234, the same code in parseBlock 47-56)
returnStatement(p) ==
    LET t == p.currentToken
        e == parseExpression(Parser_advance(p))
        p1 == expect(e.p, "Semicolon", "Expected ';' after return")
    IN R(p1, ReturnStmt(t.line, t.column, e.val))

\* print ( expr ) ; (parseStatement 235-245, the same code in parseBlock 65-76)
printStatement(p) ==
    LET t == p.currentToken
        p1 == expect(Parser_advance(p), "LParen", "Expected '(' after print")
        e == parseExpression(p1)
        p2 == expect(e.p, "RParen", "Expected ')' after print expression")
        p3 == expect(p2, "Semicolon", "Expected ';' after print")
    IN R(p3, PrintStmt(t.line, t.column, e.val))

\* the rest of a let after its name: : type = expr
letRest(p, line, col, name) ==
    LET p1 == expect(p, "Colon", "Expected ':' after variable name")
        t == parseType(p1)
        p2 == expect(t.p, "Equal", "Expected '=' after type")
        i == parseExpression(p2)
    IN R(i.p, VarDecl(line, col, name, t.val, i.val))

\* the Let branch of parseBlock: the token after let is taken as the name whatever
\* its kind; p1 is the parser at that token
blockLet(p1, t) ==
    LET v == letRest(Parser_advance(p1), t.line, t.column, p1.currentToken.lexeme)
    IN R(expect(v.p, "Semicolon", "Expected ';' after variable declaration"), v.val)

\* the Identifier branch of parseBlock, p1 being the parser after the identifier t
blockIdentifier(p1, t) ==
    CASE Failed(p1) -> R(p1, Null)
      [] ~Failed(p1) /\ p1.currentToken.type = "Equal" ->
            LET v == parseExpression(Parser_advance(p1))
            IN R(expect(v.p, "Semicolon", "Expected ';' after assignment"),
                 AssignStmt(t.line, t.column, t.lexeme, v.val))
      [] OTHER ->
            LET e == parseExpression(p1)
            IN R(expect(e.p, "Semicolon", "Expected ';' after expression"),
                 ExpressionStmt(t.line, t.column, e.val))

\* one turn of the while loop of parseBlock: the statement at the current token t
blockStatementAt(p, t) ==
    CASE t.type = "Return" -> returnStatement(p)
      [] t.type \in {"For", "While"} -> parseStatement(p)
      [] t.type = "Print" -> printStatement(p)
      [] t.type = "Let" -> blockLet(Parser_advance(p), t)
      [] t.type = "Identifier" -> blockIdentifier(Parser_advance(p), t)
      [] OTHER ->
            R(Throw(p, [what |-> "Unsupported statement in block",
                        got |-> tokenTypeToString(t.type), lexeme |-> t.lexeme,
                        line |-> t.line, column |-> t.column]), Null)

blockStatement_body(p) ==
    IF Failed(p) THEN R(p, Null) ELSE blockStatementAt(p, p.currentToken)

\* the while loop of parseBlock
RECURSIVE blockLoop(_, _)
blockLoop(p, body) ==
    IF Failed(p) \/ p.currentToken.type \in {"RBrace", "End"} THEN R(p, body)
    ELSE LET s == blockStatement(p) IN
         IF Failed(s.p) THEN R(s.p, body)
         ELSE blockLoop(s.p, Append(body, s.val))

parseBlock_body(p) ==
    LET b == blockLoop(expect(p, "LBrace", "Expected '{' to start block"), <<>>)
    IN R(expect(b.p, "RBrace", "Expected '}' to end block"), b.val)

\* let name : type = expr of parseStatement, p1 being the parser after let
statementLet(p1, t) ==
    CASE Failed(p1) -> R(p1, Null)
      [] ~Failed(p1) /\ p1.currentToken.type # "Identifier" ->
            R(Throw(p1, [what |-> "Expected identifier after 'let'"]), Null)
      [] OTHER -> letRest(Parser_advance(p1), t.line, t.column, p1.currentToken.lexeme)

\* the initializer clause of a for statement (parseStatement 305-338)
forInitializer(p, t) ==
    CASE t.type = "Let" -> statementLet(Parser_advance(p), t)
      [] t.type = "Identifier" ->
            LET p1 == expect(Parser_advance(p), "Equal", "Expected '=' after variable name")
                v == parseExpression(p1)
            IN R(v.p, AssignStmt(t.line, t.column, t.lexeme, v.val))
      [] OTHER -> R(Throw(p, [what |-> "Unsupported for-loop initializer"]), Null)

\* the initializer clause with its semicolon
forInit(p) ==
    CASE Failed(p) -> R(p, Null)
      [] ~Failed(p) /\ p.currentToken.type # "Semicolon" ->
            LET i == forInitializer(p, p.currentToken)
            IN R(expect(i.p, "Semicolon", "Expected ';' after for initializer"), i.val)
      [] OTHER -> R(Parser_advance(p), Null)

\* an optional expression: absent (nullptr) when the current token is the closing one
optionalExpression(p, closing) ==
    IF ~Failed(p) /\ p.currentToken.type # closing THEN parseExpression(p)
    ELSE R(p, Null)

\* the Identifier branch of parseStatement, p1 being the parser after the identifier t
statementIdentifier(p1, t) ==
    CASE Failed(p1) -> R(p1, Null)
      [] ~Failed(p1) /\ p1.currentToken.type = "Equal" ->
            LET v == parseExpression(Parser_advance(p1))
            IN R(expect(v.p, "Semicolon", "Expected ';' after assignment"),
                 AssignStmt(t.line, t.column, t.lexeme, v.val))
      [] ~Failed(p1) /\ p1.currentToken.type = "LParen" ->
            LET a == argumentList(Parser_advance(p1), "RParen")
                p2 == expect(a.p, "RParen", "Expected ')' after function call")
                p3 == expect(p2, "Semicolon", "Expected ';' after function call")
            IN R(p3, CallExpr(t.line, t.column, t.lexeme, a.val))
      [] OTHER ->
            R(expect(p1, "Semicolon", "Expected ';' after expression"),
              ExpressionStmt(t.line, t.column, Identifier(t.line, t.column, t.lexeme)))

\* parseStatement at the current token t
statementAt(p, t) ==
    CASE t.type = "Return" -> returnStatement(p)
      [] t.type = "Print" -> printStatement(p)
      [] t.type = "Let" ->
            LET v == statementLet(Parser_advance(p), t)
            IN R(expect(v.p, "Semicolon", "Expected ';' after variable declaration"), v.val)
      [] t.type = "Identifier" -> statementIdentifier(Parser_advance(p), t)
      [] t.type = "For" ->
            LET p1 == expect(Parser_advance(p), "LParen", "Expected '(' after for")
                init == forInit(p1)
                condition == optionalExpression(init.p, "Semicolon")
                p2 == expect(condition.p, "Semicolon", "Expected ';' after for condition")
                increment == optionalExpression(p2, "RParen")
                p3 == expect(increment.p, "RParen", "Expected ')' after for increment")
                body == parseBlock(p3)
            IN R(body.p, ForStmt(t.line, t.column, init.val, condition.val, increment.val,
                                 body.val))
      [] t.type = "While" ->
            LET p1 == expect(Parser_advance(p), "LParen", "Expected '(' after while")
                condition == parseExpression(p1)
                p2 == expect(condition.p, "RParen", "Expected ')' after while")
                body == parseBlock(p2)
            IN R(body.p, WhileStmt(t.line, t.column, condition.val, body.val))
      [] OTHER -> R(Throw(p, [what |-> "Unsupported statement at top level"]), Null)

parseStatement_body(p) ==
    IF Failed(p) THEN R(p, Null) ELSE statementAt(p, p.currentToken)

\* the parameter loop of parseFunction
RECURSIVE paramList(_, _)
paramList(p, params) ==
    IF Failed(p) THEN R(p, params)
    ELSE LET a == parseParam(p) IN
         CASE Failed(a.p) -> R(a.p, params)
           [] ~Failed(a.p) /\ a.p.currentToken.type = "Comma" ->
                 paramList(Parser_advance(a.p), Append(params, a.val))
           [] OTHER -> R(a.p, Append(params, a.val))

\* parseFunction from the function name t on, p1 being the parser at the name
functionAt(p1, t) ==
    LET p2 == expect(Parser_advance(p1), "LParen", "Expected '(' after function name")
        params == IF ~Failed(p2) /\ p2.currentToken.type # "RParen"
                  THEN paramList(p2, <<>>) ELSE R(p2, <<>>)
        p3 == expect(params.p, "RParen", "Expected ')' after parameters")
        returnType == IF ~Failed(p3) /\ p3.currentToken.type = "Colon"
                      THEN parseType(Parser_advance(p3))
                      ELSE R(p3, <<"v","o","i","d">>)
        body == parseBlock(returnType.p)
    IN R(body.p, FunctionDecl(t.line, t.column, t.lexeme, params.val, returnType.val,
                              body.val))

\* parseFunction after expect(Function), p1 being the parser it left
functionName(p1) ==
    CASE Failed(p1) -> R(p1, Null)
      [] ~Failed(p1) /\ p1.currentToken.type # "Identifier" ->
            R(Throw(p1, [what |-> "Expected function name"]), Null)
      [] OTHER -> functionAt(p1, p1.currentToken)

parseFunction(p) ==
    functionName(expect(p, "Function", "Expected 'function' keyword"))

parseTopLevel_body(p) ==
    CASE Failed(p) -> R(p, Null)
      [] ~Failed(p) /\ p.currentToken.type = "Function" -> parseFunction(p)
      [] OTHER -> parseStatement(p)

Parse(c) ==
    CASE c.f = "Parser_advance" -> Parser_advance_body(c.p)
      [] c.f = "parseExpression" -> parseExpression_body(c.p)
      [] c.f = "parseStatement" -> parseStatement_body(c.p)
      [] c.f = "parseTopLevel" -> parseTopLevel_body(c.p)
      [] c.f = "parseBlock" -> parseBlock_body(c.p)
      [] c.f = "blockStatement" -> blockStatement_body(c.p)

Parser_isAtEnd(p) == p.currentToken.type = "End"

(***************************************************************************)
(* interpreter.h.  An interpreter state is [variables, functions, output,  *)
(* trace, fault, ub, depth, steps]: the two maps of the Interpreter, the   *)
(* lines written to std::cout, the history of calls, the exception in      *)
(* flight, the outcome this run has for undefined behaviour, the number of *)
(* execFunction frames on the stack and the loop turns and calls made so   *)
(* far.  evalExpr, callFunction and execFunction give [st, val].           *)
(***************************************************************************)
EmptyMap == [k \in {} |-> 0]
\* m[k] = v on a std::unordered_map
Put(m, k, v) == [x \in (DOMAIN m) \cup {k} |-> IF x = k THEN v ELSE m[x]]

\* the program is still running when the model stops following it
StillRunning == [what |-> "running"]

Faulted(st) == st.fault # NoErr
V(st, val) == [st |-> st, val |-> val]
Raise(st, e) == IF Faulted(st) THEN st ELSE [st EXCEPT !.fault = e]
Log(st, e) == [st EXCEPT !.trace = Append(@, e)]
\* undefined behaviour that delivers a value: the process dies or goes on with garbage
Undefined(st) == IF st.ub.crash THEN V(Raise(st, Crashed), 0) ELSE V(st, st.ub.value)

INT_MIN == -INT_MAX - 1
Abs(a) == IF a < 0 THEN -a ELSE a
\* int / int of C++: the quotient truncated toward zero (b is not 0)
Quotient(a, b) ==
    IF (a < 0) = (b < 0) THEN Abs(a) \div Abs(b) ELSE -(Abs(a) \div Abs(b))

\* whether the int operation leaves the range of int (signed overflow)
AddOverflows(a, b) == (b > 0 /\ a > INT_MAX - b) \/ (b < 0 /\ a < INT_MIN - b)
SubOverflows(a, b) == (b < 0 /\ a > INT_MAX + b) \/ (b > 0 /\ a < INT_MIN + b)
MulOverflows(a, b) ==
    /\ a # 0 /\ b # 0
    /\ CASE a = INT_MIN -> b # 1
         [] a # INT_MIN /\ b = INT_MIN -> a # 1
         [] OTHER ->
              IF (a < 0) = (b < 0)
              THEN Abs(a) > INT_MAX \div Abs(b)
              ELSE /\ Abs(a) > INT_MAX \div Abs(b)
                   /\ ~(Abs(a) = (INT_MAX \div Abs(b)) + 1 /\ INT_MAX % Abs(b) = Abs(b) - 1)

\* the operator chain of evalExpr on the two operand values
applyOperator(op, left, right, st) ==
    IF op = <<"+">>
    THEN IF AddOverflows(left, right) THEN Undefined(st) ELSE V(st, left + right)
    ELSE IF op = <<"-">>
    THEN IF SubOverflows(left, right) THEN Undefined(st) ELSE V(st, left - right)
    ELSE IF op = <<"*">>
    THEN IF MulOverflows(left, right) THEN Undefined(st) ELSE V(st, left * right)
    ELSE IF op = <<"/">>
    THEN IF right = 0 \/ (left = INT_MIN /\ right = -1) THEN Undefined(st)
         ELSE IF left = INT_MIN
              THEN V(st, IF right = 1 THEN INT_MIN
                         ELSE IF right = INT_MIN THEN 1
                         ELSE Quotient(left + Abs(right), right) + (IF right > 0 THEN -1 ELSE 1))
              ELSE IF right = INT_MIN THEN V(st, 0)
              ELSE V(st, Quotient(left, right))
    ELSE IF op = <<"<">> THEN V(st, IF left < right THEN 1 ELSE 0)
    ELSE IF op = <<"<", "=">> THEN V(st, IF left <= right THEN 1 ELSE 0)
    ELSE IF op = <<">">> THEN V(st, IF left > right THEN 1 ELSE 0)
    ELSE IF op = <<">", "=">> THEN V(st, IF left >= right THEN 1 ELSE 0)
    ELSE V(Raise(st, [what |-> "Unsupported operator", op |-> op]), 0)

\* execStatement, evalExpr and callFunction, the three functions every cycle of
\* calls in the interpreter goes through, are called through Run: c.f names the
\* function, c.st is the interpreter state it is called in and c.a are its other
\* arguments.  Their definitions are name_body.
RECURSIVE Run(_)
execStatement(stmt, st0) == Run([f |-> "execStatement", st |-> st0, a |-> <<stmt>>])
evalExpr(expr, st) == Run([f |-> "evalExpr", st |-> st, a |-> <<expr>>])
callFunction(name, args, st) == Run([f |-> "callFunction", st |-> st, a |-> <<name, args>>])

\* for (auto& arg : call->args) argvals.push_back(evalExpr(arg));
RECURSIVE evalArguments(_, _, _, _)
evalArguments(args, i, argvals, st) ==
    IF Faulted(st) \/ i > Len(args) THEN V(st, argvals)
    ELSE LET e == evalExpr(args[i], st)
         IN evalArguments(args, i + 1, Append(argvals, e.val), e.st)

\* for (auto& s : body) execStatement(s);
RECURSIVE execBody(_, _, _)
execBody(body, i, st) ==
    IF Faulted(st) \/ i > Len(body) THEN st
    ELSE execBody(body, i + 1, execStatement(body[i], st))

\* a for loop from its condition on: for (...; evalExpr(condition); execStatement(increment))
RECURSIVE forLoop(_, _)
\* a for loop that runs its increment before its body
forLoop_incrementFirst(stmt, st) ==
    CASE Faulted(st) -> st
      [] ~Faulted(st) /\ st.steps >= MaxSteps -> Raise(st, StillRunning)
      [] OTHER ->
            LET c == evalExpr(stmt.condition, st) IN
            IF Faulted(c.st) \/ c.val = 0 THEN c.st
            ELSE LET i == execStatement(stmt.increment, [c.st EXCEPT !.steps = @ + 1])
                 IN forLoop(stmt, execBody(stmt.body, 1, i))

forLoop(stmt, st) ==
    CASE Faulted(st) -> st
      [] ~Faulted(st) /\ st.steps >= MaxSteps -> Raise(st, StillRunning)
      [] OTHER ->
            LET c == evalExpr(stmt.condition, st) IN
            IF Faulted(c.st) \/ c.val = 0 THEN c.st
            ELSE LET b == execBody(stmt.body, 1, [c.st EXCEPT !.steps = @ + 1])
                 IN forLoop(stmt, execStatement(stmt.increment, b))

\* while (evalExpr(condition)) { body }
RECURSIVE whileLoop(_, _)
whileLoop(stmt, st) ==
    CASE Faulted(st) -> st
      [] ~Faulted(st) /\ st.steps >= MaxSteps -> Raise(st, StillRunning)
      [] OTHER ->
            LET c == evalExpr(stmt.condition, st) IN
            IF Faulted(c.st) \/ c.val = 0 THEN c.st
            ELSE whileLoop(stmt, execBody(stmt.body, 1, [c.st EXCEPT !.steps = @ + 1]))

\* evalArray always throws; the loop over its result is never entered
evalArray(iterable, st) ==
    IF iterable.typeName = "Identifier"
    THEN Raise(st, [what |-> "Array support not implemented yet for", name |-> iterable.name])
    ELSE Raise(st, [what |-> "Unsupported iterable type"])

\* std::cout << value << std::endl
printed(e) ==
    IF Faulted(e.st) THEN e.st
    ELSE [e.st EXCEPT !.output = Append(@, [text |-> "", value |-> e.val])]

\* variables[name] = value
assigned(name, e) ==
    IF Faulted(e.st) THEN e.st
    ELSE [e.st EXCEPT !.variables = Put(@, name, e.val)]

\* a return statement: its expression is evaluated
returned(e) ==
    IF Faulted(e.st) THEN e.st
    ELSE Log(e.st, [ev |-> "return", value |-> e.val, depth |-> e.st.depth])

\* the dynamic_pointer_cast chain of execStatement
statementKind(stmt, st) ==
    CASE stmt.typeName = "ForStmt" -> forLoop(stmt, execStatement(stmt.init, st))
      [] stmt.typeName = "WhileStmt" -> whileLoop(stmt, st)
      [] stmt.typeName = "ForEachStmt" -> evalArray(stmt.iterable, st)
      [] stmt.typeName = "CallExpr" ->
            LET a == evalArguments(stmt.args, 1, <<>>, st)
            IN callFunction(stmt.funcName, a.val, a.st).st
      [] stmt.typeName = "PrintStmt" -> printed(evalExpr(stmt.expression, st))
      [] stmt.typeName = "VarDecl" -> assigned(stmt.name, evalExpr(stmt.initializer, st))
      [] stmt.typeName = "AssignStmt" -> assigned(stmt.name, evalExpr(stmt.value, st))
      [] stmt.typeName = "ExpressionStmt" -> evalExpr(stmt.expr, st).st
      [] stmt.typeName = "ReturnStmt" -> returned(evalExpr(stmt.expression, st))
      [] OTHER -> Raise(st, [what |-> "Unsupported statement at top level"])

execStatement_body(stmt, st0) ==
    IF Faulted(st0) THEN st0
    ELSE statementKind(stmt, Log(st0, [ev |-> "stmt", typeName |-> stmt.typeName,
                                       depth |-> st0.depth]))

\* left op right of evalExpr, the operands evaluated left to right
binary(op, left, right) ==
    IF Faulted(right.st) THEN V(right.st, 0)
    ELSE applyOperator(op, left.val, right.val, right.st)

\* evalExpr that takes a missing expression for true
evalExpr_missingIsTrue(expr, st) ==
    CASE Faulted(st) -> V(st, 0)
      [] ~Faulted(st) /\ expr.typeName = "Null" -> V(st, 1)
      [] ~Faulted(st) /\ expr.typeName = "Identifier" ->
            IF expr.name \in DOMAIN st.variables THEN V(st, st.variables[expr.name])
            ELSE V(Raise(st, [what |-> "Undefined variable", name |-> expr.name]), 0)
      [] ~Faulted(st) /\ expr.typeName = "BinaryExpr" ->
            LET left == evalExpr(expr.left, st)
            IN binary(expr.op, left, evalExpr(expr.right, left.st))
      [] ~Faulted(st) /\ expr.typeName = "NumberLiteral" -> V(st, expr.value)
      [] ~Faulted(st) /\ expr.typeName = "CallExpr" ->
            LET a == evalArguments(expr.args, 1, <<>>, st)
            IN callFunction(expr.funcName, a.val, a.st)
      [] OTHER -> V(Raise(st, [what |-> "Unknown expression type"]), 0)

evalExpr_body(expr, st) ==
    CASE Faulted(st) -> V(st, 0)
      [] ~Faulted(st) /\ expr.typeName = "Identifier" ->
            IF expr.name \in DOMAIN st.variables THEN V(st, st.variables[expr.name])
            ELSE V(Raise(st, [what |-> "Undefined variable", name |-> expr.name]), 0)
      [] ~Faulted(st) /\ expr.typeName = "BinaryExpr" ->
            LET left == evalExpr(expr.left, st)
            IN binary(expr.op, left, evalExpr(expr.right, left.st))
      [] ~Faulted(st) /\ expr.typeName = "NumberLiteral" -> V(st, expr.value)
      [] ~Faulted(st) /\ expr.typeName = "CallExpr" ->
            LET a == evalArguments(expr.args, 1, <<>>, st)
            IN callFunction(expr.funcName, a.val, a.st)
      [] OTHER -> V(Raise(st, [what |-> "Unknown expression type"]), 0)

\* the parameter loop of execFunction: variables[params[i].first] = args[i];
RECURSIVE bindParameters(_, _, _, _)
bindParameters(params, args, i, st) ==
    CASE Faulted(st) \/ i > Len(params) -> st
      [] ~Faulted(st) /\ i <= Len(params) /\ i > Len(args) ->
            \* args[i] past the end of the vector
            LET u == Undefined(st) IN
            IF Faulted(u.st) THEN u.st
            ELSE bindParameters(params, args, i + 1,
                                [u.st EXCEPT !.variables = Put(@, params[i][1], u.val)])
      [] OTHER ->
            bindParameters(params, args, i + 1,
                           [st EXCEPT !.variables = Put(@, params[i][1], args[i])])

\* the statement stmt of a function body up to its break or the end of the loop turn:
\* what it leaves, the value it sets returnValue to and whether it breaks out
Step(st, val, break) == [st |-> st, val |-> val, break |-> break]

bodyStatement(stmt, st) ==
    CASE stmt.typeName = "PrintStmt" -> Step(printed(evalExpr(stmt.expression, st)), 0, FALSE)
      [] stmt.typeName = "ReturnStmt" ->
            LET e == evalExpr(stmt.expression, st)
            IN Step(returned(e), e.val, TRUE)
      [] stmt.typeName = "VarDecl" ->
            Step(assigned(stmt.name, evalExpr(stmt.initializer, st)), 0, FALSE)
      [] stmt.typeName = "AssignStmt" ->
            Step(assigned(stmt.name, evalExpr(stmt.value, st)), 0, FALSE)
      [] stmt.typeName = "ExpressionStmt" -> Step(evalExpr(stmt.expr, st).st, 0, FALSE)
      [] stmt.typeName = "ForStmt" ->
            Step(forLoop(stmt, execStatement(stmt.init, st)), 0, FALSE)
      [] stmt.typeName = "WhileStmt" -> Step(whileLoop(stmt, st), 0, FALSE)
      [] stmt.typeName = "ForEachStmt" -> Step(evalArray(stmt.iterable, st), 0, FALSE)
      [] stmt.typeName = "CallExpr" ->
            LET a == evalArguments(stmt.args, 1, <<>>, st)
            IN Step(callFunction(stmt.funcName, a.val, a.st).st, 0, FALSE)
      [] OTHER -> Step(st, 0, FALSE)

\* the statement loop of execFunction; val is returnValue
RECURSIVE functionBody(_, _, _)
\* a statement loop whose returnValue starts at 1
functionBody_startsAtOne(body, i, st0) ==
    IF Faulted(st0) \/ i > Len(body) THEN V(st0, 1)
    ELSE LET s == bodyStatement(body[i],
                                Log(st0, [ev |-> "stmt", typeName |-> body[i].typeName,
                                          depth |-> st0.depth]))
         IN IF Faulted(s.st) \/ s.break THEN V(s.st, s.val)
            ELSE functionBody(body, i + 1, s.st)

functionBody(body, i, st0) ==
    IF Faulted(st0) \/ i > Len(body) THEN V(st0, 0)
    ELSE LET s == bodyStatement(body[i],
                                Log(st0, [ev |-> "stmt", typeName |-> body[i].typeName,
                                          depth |-> st0.depth]))
         IN IF Faulted(s.st) \/ s.break THEN V(s.st, s.val)
            ELSE functionBody(body, i + 1, s.st)

\* execFunction without variables = savedVariables
leave_withoutRestore(func, st, r) ==
    IF Faulted(r.st) THEN V(r.st, 0)
    ELSE V(Log([r.st EXCEPT !.depth = @ - 1],
               [ev |-> "exit", name |-> func.name, value |-> r.val,
                before |-> st.variables, inside |-> r.st.variables,
                after |-> r.st.variables, depth |-> st.depth + 1]),
           r.val)

restored_keepsLocals(st, r) == [r.st EXCEPT !.depth = @ - 1]

\* the environment execFunction leaves: variables = savedVariables
restored(st, r) == [r.st EXCEPT !.variables = st.variables, !.depth = @ - 1]

\* execFunction after the body has run: r is what the body left and returned, st
\* the state at the call, whose variables are savedVariables
leave(func, st, r) ==
    IF Faulted(r.st) THEN V(r.st, 0)
    ELSE V(Log(restored(st, r),
               [ev |-> "exit", name |-> func.name, value |-> r.val,
                before |-> st.variables, inside |-> r.st.variables,
                after |-> restored(st, r).variables, depth |-> st.depth + 1]),
           r.val)

\* execFunction up to the end of the body
enter(func, args, st) ==
    functionBody(func.body, 1,
                 bindParameters(func.params, args, 1,
                                Log([st EXCEPT !.depth = @ + 1, !.steps = @ + 1],
                                    [ev |-> "call", name |-> func.name, args |-> args,
                                     depth |-> st.depth + 1])))

execFunction(func, args, st) ==
    CASE Faulted(st) -> V(st, 0)
      [] ~Faulted(st) /\ st.steps >= MaxSteps -> V(Raise(st, StillRunning), 0)
      [] OTHER -> leave(func, st, enter(func, args, st))

\* callFunction that gives 0 for a name it does not find
callFunction_default(name, args, st) ==
    CASE Faulted(st) -> V(st, 0)
      [] ~Faulted(st) /\ name \notin DOMAIN st.functions -> V(st, 0)
      [] OTHER -> execFunction(st.functions[name], args, st)

callFunction_body(name, args, st) ==
    CASE Faulted(st) -> V(st, 0)
      [] ~Faulted(st) /\ name \notin DOMAIN st.functions ->
            V(Raise(st, [what |-> "Function not found", name |-> name]), 0)
      [] OTHER -> execFunction(st.functions[name], args, st)

Run(c) ==
    CASE c.f = "execStatement" -> execStatement_body(c.a[1], c.st)
      [] c.f = "evalExpr" -> evalExpr_body(c.a[1], c.st)
      [] c.f = "callFunction" -> callFunction_body(c.a[1], c.a[2], c.st)

\* Interpreter::addFunction
addFunction(fs, name, func) == Put(fs, name, func)

(***************************************************************************)
(* The lexer on its own: a client that builds a Lexer over a buffer and    *)
(* calls nextToken again and again.                                        *)
(***************************************************************************)
LexAlphabet == {"\n", ";", "<", ">", "=", "!", "a", "1", " ", "\"", "/"}

RECURSIVE SeqsUpTo(_, _)
SeqsUpTo(S, n) ==
    IF n = 0 THEN {<<>>}
    ELSE LET shorter == SeqsUpTo(S, n - 1)
         IN shorter \cup {Append(s, c) : s \in shorter, c \in S}

SrcLet == <<"l","e","t"," ","x",":"," ","i","n","t"," ","=",
            " ","1"," ","+"," ","2",";">>

\* texts with words, reserved words, line ends and string literals
LexTexts ==
    { <<"i","n">>,
      <<"i","n","t">>,
      <<"i","n","x">>,
      <<"i","n","1">>,
      <<"_","i","n">>,
      <<"i","n","_">>,
      <<"_">>,
      <<"x","_","1"," ","y">>,
      <<"p","r","i","n","t">>,
      <<"p","r","i","n","t","x">>,
      <<"r","e","t","u","r","n">>,
      <<"l","e","t","x">>,
      <<"F","o","r">>,
      <<"a","\n"," "," ","w","h","i","l","e","(">>,
      <<"/","/","c","\n","f","o","r"," ","x">>,
      <<"1","a">>,
      <<"f","u","n","c","t","i","o","n">>,
      <<"c","o","n","s","t">>,
      <<"c","l","a","s","s">>,
      <<"d","o","u","b","l","e">>,
      <<"b","o","o","l">>,
      <<"\t","b","o","o","l","_"," ","i","n">>,
      <<"i","\r","\n"," ","n">>,
      <<"\"","a","b","c">>,
      <<"\"","a","\\","\"">>,
      <<"\"","a","\\","\\","\"">>,
      <<"\"","a","\\">>,
      <<"x"," ","\"","a","\n","b">>,
      <<"\"","a","\""," ","\"","b">>,
      <<"\n"," ","\"">>,
      <<"\"","a","b","\""," ","x">> }

LexSources == SeqsUpTo(LexAlphabet, MaxSrcLen) \cup {SrcLet} \cup LexTexts

LexInit ==
    /\ lexer \in {Lexer(src) : src \in LexSources}
    /\ token = NoToken
    /\ currentToken = NoToken
    /\ node = Null
    /\ functions = EmptyMap
    /\ variables = EmptyMap
    /\ output = <<>>
    /\ errout = <<>>
    /\ trace = <<>>
    /\ pc = "lexing"

\* one call of Lexer::nextToken that returns
NextTokenReturns ==
    /\ pc = "lexing"
    /\ token.type # "End"
    /\ \E r \in {nextToken(lexer, 0)} :
       /\ r.returned
       /\ lexer' = r.lexer
       /\ token' = r.token
       /\ pc' = "lexing"
    /\ UNCHANGED <<currentToken, node, functions, variables, output, errout, trace>>

\* one call of Lexer::nextToken that recurses until the stack is used up
NextTokenDiverges ==
    /\ pc = "lexing"
    /\ token.type # "End"
    /\ \E r \in {nextToken(lexer, 0)} :
       /\ ~r.returned
       /\ lexer' = r.lexer
       /\ token' = r.token
       /\ pc' = "diverged"
    /\ UNCHANGED <<currentToken, node, functions, variables, output, errout, trace>>

LexNext == NextTokenReturns \/ NextTokenDiverges

LexSpec == LexInit /\ [][LexNext]_vars

(***************************************************************************)
(* The programs the driver is run on.                                      *)
(***************************************************************************)
\* function main(): int { for (let i: int = 0; i < 10; i++) { print(i); } return 0; }
Canonical ==
    <<"f","u","n","c","t","i","o","n"," ","m","a","i","n","(",")",":"," ","i","n","t"," ","{"," ","f",
    "o","r"," ","(","l","e","t"," ","i",":"," ","i","n","t"," ","="," ","0",";"," ","i"," ","<"," ",
    "1","0",";"," ","i","+","+",")"," ","{"," ","p","r","i","n","t","(","i",")",";"," ","}"," ","r",
    "e","t","u","r","n"," ","0",";"," ","}">>
\* \n\n        function main(): int \n        {\n            for (let i: int = 0; i < 10; i++) {\n                print(i);\n            } //Our for loop\n\n\t\t\treturn 0; //Our function return\n        }\n\n
EntrySource ==
    <<"\n","\n"," "," "," "," "," "," "," "," ","f","u","n","c","t","i","o","n"," ","m","a","i","n",
    "(",")",":"," ","i","n","t"," ","\n"," "," "," "," "," "," "," "," ","{","\n"," "," "," "," ",
    " "," "," "," "," "," "," "," ","f","o","r"," ","(","l","e","t"," ","i",":"," ","i","n","t"," ",
    "="," ","0",";"," ","i"," ","<"," ","1","0",";"," ","i","+","+",")"," ","{","\n"," "," "," ",
    " "," "," "," "," "," "," "," "," "," "," "," "," ","p","r","i","n","t","(","i",")",";","\n",
    " "," "," "," "," "," "," "," "," "," "," "," ","}"," ","/","/","O","u","r"," ","f","o","r"," ",
    "l","o","o","p","\n","\n","\t","\t","\t","r","e","t","u","r","n"," ","0",";"," ","/","/","O",
    "u","r"," ","f","u","n","c","t","i","o","n"," ","r","e","t","u","r","n","\n"," "," "," "," ",
    " "," "," "," ","}","\n","\n">>
\* print(1 - 2 - 3);
Subtraction ==
    <<"p","r","i","n","t","(","1"," ","-"," ","2"," ","-"," ","3",")",";">>
\* let x: int = 1; function f(a: int): int { x = 5; let y: int = a; return x + y; } print(f(2)); print(x);
Scope ==
    <<"l","e","t"," ","x",":"," ","i","n","t"," ","="," ","1",";"," ","f","u","n","c","t","i","o","n",
    " ","f","(","a",":"," ","i","n","t",")",":"," ","i","n","t"," ","{"," ","x"," ","="," ","5",";",
    " ","l","e","t"," ","y",":"," ","i","n","t"," ","="," ","a",";"," ","r","e","t","u","r","n"," ",
    "x"," ","+"," ","y",";"," ","}"," ","p","r","i","n","t","(","f","(","2",")",")",";"," ","p","r",
    "i","n","t","(","x",")",";">>
\* let x: int = 1; function h(b: int): int { x = b; let z: int = 9; return x; } function f(a: int): int { let y: int = h(a + 1); x = 7; return y + x; } print(f(2)); print(x);
Nested ==
    <<"l","e","t"," ","x",":"," ","i","n","t"," ","="," ","1",";"," ","f","u","n","c","t","i","o","n",
    " ","h","(","b",":"," ","i","n","t",")",":"," ","i","n","t"," ","{"," ","x"," ","="," ","b",";",
    " ","l","e","t"," ","z",":"," ","i","n","t"," ","="," ","9",";"," ","r","e","t","u","r","n"," ",
    "x",";"," ","}"," ","f","u","n","c","t","i","o","n"," ","f","(","a",":"," ","i","n","t",")",":",
    " ","i","n","t"," ","{"," ","l","e","t"," ","y",":"," ","i","n","t"," ","="," ","h","(","a"," ",
    "+"," ","1",")",";"," ","x"," ","="," ","7",";"," ","r","e","t","u","r","n"," ","y"," ","+"," ",
    "x",";"," ","}"," ","p","r","i","n","t","(","f","(","2",")",")",";"," ","p","r","i","n","t","(",
    "x",")",";">>
\* function r(n: int): int { while (n > 0) { n = r(n - 1) - 1; } let d: int = n + 1; return d; } print(r(1));
Recursive ==
    <<"f","u","n","c","t","i","o","n"," ","r","(","n",":"," ","i","n","t",")",":"," ","i","n","t"," ",
    "{"," ","w","h","i","l","e"," ","(","n"," ",">"," ","0",")"," ","{"," ","n"," ","="," ","r","(",
    "n"," ","-"," ","1",")"," ","-"," ","1",";"," ","}"," ","l","e","t"," ","d",":"," ","i","n","t",
    " ","="," ","n"," ","+"," ","1",";"," ","r","e","t","u","r","n"," ","d",";"," ","}"," ","p","r",
    "i","n","t","(","r","(","1",")",")",";">>
\* let x: int = 1; function main(): int { x = 2; let q: int = 3; return x; }
MainScope ==
    <<"l","e","t"," ","x",":"," ","i","n","t"," ","="," ","1",";"," ","f","u","n","c","t","i","o","n",
    " ","m","a","i","n","(",")",":"," ","i","n","t"," ","{"," ","x"," ","="," ","2",";"," ","l","e",
    "t"," ","q",":"," ","i","n","t"," ","="," ","3",";"," ","r","e","t","u","r","n"," ","x",";"," ",
    "}">>
\* function f(): int { return 5; print(9); return 7; } print(f());
ReturnFirst ==
    <<"f","u","n","c","t","i","o","n"," ","f","(",")",":"," ","i","n","t"," ","{"," ","r","e","t","u",
    "r","n"," ","5",";"," ","p","r","i","n","t","(","9",")",";"," ","r","e","t","u","r","n"," ","7",
    ";"," ","}"," ","p","r","i","n","t","(","f","(",")",")",";">>
\* function f(): int { for (let i: int = 0; i < 2; i++) { return 5; } print(9); return 7; } print(f());
ReturnInFor ==
    <<"f","u","n","c","t","i","o","n"," ","f","(",")",":"," ","i","n","t"," ","{"," ","f","o","r"," ",
    "(","l","e","t"," ","i",":"," ","i","n","t"," ","="," ","0",";"," ","i"," ","<"," ","2",";"," ",
    "i","+","+",")"," ","{"," ","r","e","t","u","r","n"," ","5",";"," ","}"," ","p","r","i","n","t",
    "(","9",")",";"," ","r","e","t","u","r","n"," ","7",";"," ","}"," ","p","r","i","n","t","(","f",
    "(",")",")",";">>
\* function f(): int { let n: int = 1; while (n > 0) { n = n - 1; return 5; } return 7; } print(f());
ReturnInWhile ==
    <<"f","u","n","c","t","i","o","n"," ","f","(",")",":"," ","i","n","t"," ","{"," ","l","e","t"," ",
    "n",":"," ","i","n","t"," ","="," ","1",";"," ","w","h","i","l","e"," ","(","n"," ",">"," ","0",
    ")"," ","{"," ","n"," ","="," ","n"," ","-"," ","1",";"," ","r","e","t","u","r","n"," ","5",";",
    " ","}"," ","r","e","t","u","r","n"," ","7",";"," ","}"," ","p","r","i","n","t","(","f","(",")",
    ")",";">>
\* function main(): int { while (1) { return 5; } }
ReturnInEndless ==
    <<"f","u","n","c","t","i","o","n"," ","m","a","i","n","(",")",":"," ","i","n","t"," ","{"," ","w",
    "h","i","l","e"," ","(","1",")"," ","{"," ","r","e","t","u","r","n"," ","5",";"," ","}"," ","}">>
\* return 4; print(3);
ReturnAtTop ==
    <<"r","e","t","u","r","n"," ","4",";"," ","p","r","i","n","t","(","3",")",";">>
\* function f(): int { let @: int = 1; return 0; }
BadLetInBlock ==
    <<"f","u","n","c","t","i","o","n"," ","f","(",")",":"," ","i","n","t"," ","{"," ","l","e","t"," ",
    "@",":"," ","i","n","t"," ","="," ","1",";"," ","r","e","t","u","r","n"," ","0",";"," ","}">>
\* function main(): int { let @: int = 1; return 0; }
BadLetInMain ==
    <<"f","u","n","c","t","i","o","n"," ","m","a","i","n","(",")",":"," ","i","n","t"," ","{"," ","l",
    "e","t"," ","@",":"," ","i","n","t"," ","="," ","1",";"," ","r","e","t","u","r","n"," ","0",";",
    " ","}">>
\* let @: int = 1;
BadLetAtTop ==
    <<"l","e","t"," ","@",":"," ","i","n","t"," ","="," ","1",";">>
\* for (let @: int = 0; 0; ) { }
BadLetInFor ==
    <<"f","o","r"," ","(","l","e","t"," ","@",":"," ","i","n","t"," ","="," ","0",";"," ","0",";"," ",
    ")"," ","{"," ","}">>
\* print(@);
BadPrint ==
    <<"p","r","i","n","t","(","@",")",";">>
\* @
BadStatement ==
    <<"@">>
\* function f(): int { @ }
BadInBlock ==
    <<"f","u","n","c","t","i","o","n"," ","f","(",")",":"," ","i","n","t"," ","{"," ","@"," ","}">>
\* function @(): int { return 0; }
BadName ==
    <<"f","u","n","c","t","i","o","n"," ","@","(",")",":"," ","i","n","t"," ","{"," ","r","e","t","u",
    "r","n"," ","0",";"," ","}">>
\* function f(): int { return "abc
BadString ==
    <<"f","u","n","c","t","i","o","n"," ","f","(",")",":"," ","i","n","t"," ","{"," ","r","e","t","u",
    "r","n"," ","\"","a","b","c">>
\* let v: @ = 1;
BadType ==
    <<"l","e","t"," ","v",":"," ","@"," ","="," ","1",";">>
\* function g(a: int): int { print(a); return a; } g(5);
CallAtTop ==
    <<"f","u","n","c","t","i","o","n"," ","g","(","a",":"," ","i","n","t",")",":"," ","i","n","t"," ",
    "{"," ","p","r","i","n","t","(","a",")",";"," ","r","e","t","u","r","n"," ","a",";"," ","}"," ",
    "g","(","5",")",";">>
\* function g(a: int): int { print(a); return a; } function main(): int { g(5); return 0; }
CallInBody ==
    <<"f","u","n","c","t","i","o","n"," ","g","(","a",":"," ","i","n","t",")",":"," ","i","n","t"," ",
    "{"," ","p","r","i","n","t","(","a",")",";"," ","r","e","t","u","r","n"," ","a",";"," ","}"," ",
    "f","u","n","c","t","i","o","n"," ","m","a","i","n","(",")",":"," ","i","n","t"," ","{"," ","g",
    "(","5",")",";"," ","r","e","t","u","r","n"," ","0",";"," ","}">>
\* function g(a: int): int { print(a); return a; } function main(): int { for (let i: int = 0; i < 1; i++) { g(5); } return 0; }
CallInLoop ==
    <<"f","u","n","c","t","i","o","n"," ","g","(","a",":"," ","i","n","t",")",":"," ","i","n","t"," ",
    "{"," ","p","r","i","n","t","(","a",")",";"," ","r","e","t","u","r","n"," ","a",";"," ","}"," ",
    "f","u","n","c","t","i","o","n"," ","m","a","i","n","(",")",":"," ","i","n","t"," ","{"," ","f",
    "o","r"," ","(","l","e","t"," ","i",":"," ","i","n","t"," ","="," ","0",";"," ","i"," ","<"," ",
    "1",";"," ","i","+","+",")"," ","{"," ","g","(","5",")",";"," ","}"," ","r","e","t","u","r","n",
    " ","0",";"," ","}">>
\* function g(a: int): int { print(a); return a; } let n: int = 1; while (n > 0) { n = n - 1; g(5); }
CallInTopLoop ==
    <<"f","u","n","c","t","i","o","n"," ","g","(","a",":"," ","i","n","t",")",":"," ","i","n","t"," ",
    "{"," ","p","r","i","n","t","(","a",")",";"," ","r","e","t","u","r","n"," ","a",";"," ","}"," ",
    "l","e","t"," ","n",":"," ","i","n","t"," ","="," ","1",";"," ","w","h","i","l","e"," ","(","n",
    " ",">"," ","0",")"," ","{"," ","n"," ","="," ","n"," ","-"," ","1",";"," ","g","(","5",")",";",
    " ","}">>
\* function g(a: int): int { print(a); return a; } function k(a: int, b: int): int { return a - b; } k(g(1), g(2));
CallArgsAtTop ==
    <<"f","u","n","c","t","i","o","n"," ","g","(","a",":"," ","i","n","t",")",":"," ","i","n","t"," ",
    "{"," ","p","r","i","n","t","(","a",")",";"," ","r","e","t","u","r","n"," ","a",";"," ","}"," ",
    "f","u","n","c","t","i","o","n"," ","k","(","a",":"," ","i","n","t",","," ","b",":"," ","i","n",
    "t",")",":"," ","i","n","t"," ","{"," ","r","e","t","u","r","n"," ","a"," ","-"," ","b",";"," ",
    "}"," ","k","(","g","(","1",")",","," ","g","(","2",")",")",";">>
\* function g(a: int): int { print(a); return a; } function k(a: int, b: int): int { return a - b; } function main(): int { k(g(1), g(2)); return 0; }
CallArgsInBody ==
    <<"f","u","n","c","t","i","o","n"," ","g","(","a",":"," ","i","n","t",")",":"," ","i","n","t"," ",
    "{"," ","p","r","i","n","t","(","a",")",";"," ","r","e","t","u","r","n"," ","a",";"," ","}"," ",
    "f","u","n","c","t","i","o","n"," ","k","(","a",":"," ","i","n","t",","," ","b",":"," ","i","n",
    "t",")",":"," ","i","n","t"," ","{"," ","r","e","t","u","r","n"," ","a"," ","-"," ","b",";"," ",
    "}"," ","f","u","n","c","t","i","o","n"," ","m","a","i","n","(",")",":"," ","i","n","t"," ","{",
    " ","k","(","g","(","1",")",","," ","g","(","2",")",")",";"," ","r","e","t","u","r","n"," ","0",
    ";"," ","}">>
\* function z(): int { print(7); return 1; } z();
CallNoArgsAtTop ==
    <<"f","u","n","c","t","i","o","n"," ","z","(",")",":"," ","i","n","t"," ","{"," ","p","r","i","n",
    "t","(","7",")",";"," ","r","e","t","u","r","n"," ","1",";"," ","}"," ","z","(",")",";">>
\* function z(): int { print(7); return 1; } function main(): int { z(); return 0; }
CallNoArgsInBody ==
    <<"f","u","n","c","t","i","o","n"," ","z","(",")",":"," ","i","n","t"," ","{"," ","p","r","i","n",
    "t","(","7",")",";"," ","r","e","t","u","r","n"," ","1",";"," ","}"," ","f","u","n","c","t","i",
    "o","n"," ","m","a","i","n","(",")",":"," ","i","n","t"," ","{"," ","z","(",")",";"," ","r","e",
    "t","u","r","n"," ","0",";"," ","}">>
\* nosuch(1);
Unknown ==
    <<"n","o","s","u","c","h","(","1",")",";">>
\* let x: int = 1; nosuch(x, 2);
UnknownTwoArgs ==
    <<"l","e","t"," ","x",":"," ","i","n","t"," ","="," ","1",";"," ","n","o","s","u","c","h","(","x",
    ","," ","2",")",";">>
\* let x: int = 1; print(nosuch());
UnknownInPrint ==
    <<"l","e","t"," ","x",":"," ","i","n","t"," ","="," ","1",";"," ","p","r","i","n","t","(","n","o",
    "s","u","c","h","(",")",")",";">>
\* function main(): int { return nosuch(3); }
UnknownInMain ==
    <<"f","u","n","c","t","i","o","n"," ","m","a","i","n","(",")",":"," ","i","n","t"," ","{"," ","r",
    "e","t","u","r","n"," ","n","o","s","u","c","h","(","3",")",";"," ","}">>
\* function g(a: int): int { print(a); return a; } let y: int = g(nosuch(1));
UnknownAsArgument ==
    <<"f","u","n","c","t","i","o","n"," ","g","(","a",":"," ","i","n","t",")",":"," ","i","n","t"," ",
    "{"," ","p","r","i","n","t","(","a",")",";"," ","r","e","t","u","r","n"," ","a",";"," ","}"," ",
    "l","e","t"," ","y",":"," ","i","n","t"," ","="," ","g","(","n","o","s","u","c","h","(","1",")",
    ")",";">>
\* function g(a: int): int { print(a); return a; } let x: int = g(2); h(x);
UnknownAfterDecl ==
    <<"f","u","n","c","t","i","o","n"," ","g","(","a",":"," ","i","n","t",")",":"," ","i","n","t"," ",
    "{"," ","p","r","i","n","t","(","a",")",";"," ","r","e","t","u","r","n"," ","a",";"," ","}"," ",
    "l","e","t"," ","x",":"," ","i","n","t"," ","="," ","g","(","2",")",";"," ","h","(","x",")",";">>
\* print(1)\n;
SemicolonOnNewLine ==
    <<"p","r","i","n","t","(","1",")","\n",";">>
\* \n;print(1);
SemicolonFirst ==
    <<"\n",";","p","r","i","n","t","(","1",")",";">>
\* function z(): int { return 1; } print(z()());
CallOfCall ==
    <<"f","u","n","c","t","i","o","n"," ","z","(",")",":"," ","i","n","t"," ","{"," ","r","e","t","u",
    "r","n"," ","1",";"," ","}"," ","p","r","i","n","t","(","z","(",")","(",")",")",";">>
\* print(1 / 0);
DivideByZero ==
    <<"p","r","i","n","t","(","1"," ","/"," ","0",")",";">>

\* print(1); function main(): int { print(3); return 0; } print(2);
Order ==
    <<"p","r","i","n","t","(","1",")",";"," ","f","u","n","c","t","i","o","n"," ","m","a","i","n","(",
    ")",":"," ","i","n","t"," ","{"," ","p","r","i","n","t","(","3",")",";"," ","r","e","t","u","r",
    "n"," ","0",";"," ","}"," ","p","r","i","n","t","(","2",")",";">>
\* function main(): int { print(3); return 0; } print(q); print(4);
FaultBeforeMain ==
    <<"f","u","n","c","t","i","o","n"," ","m","a","i","n","(",")",":"," ","i","n","t"," ","{"," ","p",
    "r","i","n","t","(","3",")",";"," ","r","e","t","u","r","n"," ","0",";"," ","}"," ","p","r","i",
    "n","t","(","q",")",";"," ","p","r","i","n","t","(","4",")",";">>
\* function main(): int { print(3); return 0; } print(1); @ print(4);
ParseFaultAfterMain ==
    <<"f","u","n","c","t","i","o","n"," ","m","a","i","n","(",")",":"," ","i","n","t"," ","{"," ","p",
    "r","i","n","t","(","3",")",";"," ","r","e","t","u","r","n"," ","0",";"," ","}"," ","p","r","i",
    "n","t","(","1",")",";"," ","@"," ","p","r","i","n","t","(","4",")",";">>
\* print(7 / 2);
SevenByTwo ==
    <<"p","r","i","n","t","(","7"," ","/"," ","2",")",";">>
\* print(-7 / 2);
MinusSevenByTwo ==
    <<"p","r","i","n","t","(","-","7"," ","/"," ","2",")",";">>
\* let a: int = 0 - 7; print(a / 2);
NegativeDividend ==
    <<"l","e","t"," ","a",":"," ","i","n","t"," ","="," ","0"," ","-"," ","7",";"," ","p","r","i","n",
    "t","(","a"," ","/"," ","2",")",";">>
\* let b: int = 0 - 2; print(7 / b);
NegativeDivisor ==
    <<"l","e","t"," ","b",":"," ","i","n","t"," ","="," ","0"," ","-"," ","2",";"," ","p","r","i","n",
    "t","(","7"," ","/"," ","b",")",";">>
\* let a: int = 0 - 7; let b: int = 0 - 2; print(a / b);
BothNegative ==
    <<"l","e","t"," ","a",":"," ","i","n","t"," ","="," ","0"," ","-"," ","7",";"," ","l","e","t"," ",
    "b",":"," ","i","n","t"," ","="," ","0"," ","-"," ","2",";"," ","p","r","i","n","t","(","a"," ",
    "/"," ","b",")",";">>
\* let a: int = (0 - 2147483647) - 1; let b: int = 0 - 1; print(a / b);
DivideOverflow ==
    <<"l","e","t"," ","a",":"," ","i","n","t"," ","="," ","(","0"," ","-"," ","2","1","4","7","4","8",
    "3","6","4","7",")"," ","-"," ","1",";"," ","l","e","t"," ","b",":"," ","i","n","t"," ","="," ",
    "0"," ","-"," ","1",";"," ","p","r","i","n","t","(","a"," ","/"," ","b",")",";">>
\* for (let i: int = 0; ; i++) { print(i); }
ForNoCondition ==
    <<"f","o","r"," ","(","l","e","t"," ","i",":"," ","i","n","t"," ","="," ","0",";"," ",";"," ","i",
    "+","+",")"," ","{"," ","p","r","i","n","t","(","i",")",";"," ","}">>
\* function main(): int { for (let i: int = 0; ; i++) { print(i); } return 0; }
ForNoConditionInBody ==
    <<"f","u","n","c","t","i","o","n"," ","m","a","i","n","(",")",":"," ","i","n","t"," ","{"," ","f",
    "o","r"," ","(","l","e","t"," ","i",":"," ","i","n","t"," ","="," ","0",";"," ",";"," ","i","+",
    "+",")"," ","{"," ","p","r","i","n","t","(","i",")",";"," ","}"," ","r","e","t","u","r","n"," ",
    "0",";"," ","}">>
\* function t(n: int): int { print(n); return n; } for (let i: int = t(0); t(10 + i) < 12; i = t(20 + i) - 19) { print(i); }
ForOrder ==
    <<"f","u","n","c","t","i","o","n"," ","t","(","n",":"," ","i","n","t",")",":"," ","i","n","t"," ",
    "{"," ","p","r","i","n","t","(","n",")",";"," ","r","e","t","u","r","n"," ","n",";"," ","}"," ",
    "f","o","r"," ","(","l","e","t"," ","i",":"," ","i","n","t"," ","="," ","t","(","0",")",";"," ",
    "t","(","1","0"," ","+"," ","i",")"," ","<"," ","1","2",";"," ","i"," ","="," ","t","(","2","0",
    " ","+"," ","i",")"," ","-"," ","1","9",")"," ","{"," ","p","r","i","n","t","(","i",")",";"," ",
    "}">>
\* function t(n: int): int { print(n); return n; } function main(): int { for (let i: int = t(0); t(10 + i) < 12; i = t(20 + i) - 19) { print(i); } return 7; }
ForOrderInBody ==
    <<"f","u","n","c","t","i","o","n"," ","t","(","n",":"," ","i","n","t",")",":"," ","i","n","t"," ",
    "{"," ","p","r","i","n","t","(","n",")",";"," ","r","e","t","u","r","n"," ","n",";"," ","}"," ",
    "f","u","n","c","t","i","o","n"," ","m","a","i","n","(",")",":"," ","i","n","t"," ","{"," ","f",
    "o","r"," ","(","l","e","t"," ","i",":"," ","i","n","t"," ","="," ","t","(","0",")",";"," ","t",
    "(","1","0"," ","+"," ","i",")"," ","<"," ","1","2",";"," ","i"," ","="," ","t","(","2","0"," ",
    "+"," ","i",")"," ","-"," ","1","9",")"," ","{"," ","p","r","i","n","t","(","i",")",";"," ","}",
    " ","r","e","t","u","r","n"," ","7",";"," ","}">>
\* function e(v: int): int { let w: int = v + 1; print(w); } print(e(4));
WithoutReturn ==
    <<"f","u","n","c","t","i","o","n"," ","e","(","v",":"," ","i","n","t",")",":"," ","i","n","t"," ",
    "{"," ","l","e","t"," ","w",":"," ","i","n","t"," ","="," ","v"," ","+"," ","1",";"," ","p","r",
    "i","n","t","(","w",")",";"," ","}"," ","p","r","i","n","t","(","e","(","4",")",")",";">>
\* function p(v: int) { print(v * 2); } print(p(4));
WithoutReturnVoid ==
    <<"f","u","n","c","t","i","o","n"," ","p","(","v",":"," ","i","n","t",")"," ","{"," ","p","r","i",
    "n","t","(","v"," ","*"," ","2",")",";"," ","}"," ","p","r","i","n","t","(","p","(","4",")",")",
    ";">>
\* function main(): bool { let w: int = 5; }
WithoutReturnBool ==
    <<"f","u","n","c","t","i","o","n"," ","m","a","i","n","(",")",":"," ","b","o","o","l"," ","{"," ",
    "l","e","t"," ","w",":"," ","i","n","t"," ","="," ","5",";"," ","}">>
\* function s(n: int): int { let w: int = 0; while (n > 0) { w = w + n; n = n - 1; } print(w); } print(s(2));
WithoutReturnLoop ==
    <<"f","u","n","c","t","i","o","n"," ","s","(","n",":"," ","i","n","t",")",":"," ","i","n","t"," ",
    "{"," ","l","e","t"," ","w",":"," ","i","n","t"," ","="," ","0",";"," ","w","h","i","l","e"," ",
    "(","n"," ",">"," ","0",")"," ","{"," ","w"," ","="," ","w"," ","+"," ","n",";"," ","n"," ","=",
    " ","n"," ","-"," ","1",";"," ","}"," ","p","r","i","n","t","(","w",")",";"," ","}"," ","p","r",
    "i","n","t","(","s","(","2",")",")",";">>
\* return 1 + 2;
StmtReturn ==
    <<"r","e","t","u","r","n"," ","1"," ","+"," ","2",";">>
\* print(1 + 2);
StmtPrint ==
    <<"p","r","i","n","t","(","1"," ","+"," ","2",")",";">>
\* let x: int = 1;
StmtLet ==
    <<"l","e","t"," ","x",":"," ","i","n","t"," ","="," ","1",";">>
\* x = 2;
StmtAssign ==
    <<"x"," ","="," ","2",";">>
\* g(5);
StmtCall ==
    <<"g","(","5",")",";">>
\* z();
StmtCallNoArgs ==
    <<"z","(",")",";">>
\* k(1, 2);
StmtCallTwo ==
    <<"k","(","1",","," ","2",")",";">>
\* x;
StmtBare ==
    <<"x",";">>
\* for (let i: int = 0; i < 2; i++) { print(i); }
StmtFor ==
    <<"f","o","r"," ","(","l","e","t"," ","i",":"," ","i","n","t"," ","="," ","0",";"," ","i"," ","<",
    " ","2",";"," ","i","+","+",")"," ","{"," ","p","r","i","n","t","(","i",")",";"," ","}">>
\* while (x > 0) { x = x - 1; }
StmtWhile ==
    <<"w","h","i","l","e"," ","(","x"," ",">"," ","0",")"," ","{"," ","x"," ","="," ","x"," ","-"," ",
    "1",";"," ","}">>
\* let i: int = 1; print(i++); print(i);
PrintIncrement ==
    <<"l","e","t"," ","i",":"," ","i","n","t"," ","="," ","1",";"," ","p","r","i","n","t","(","i","+",
    "+",")",";"," ","p","r","i","n","t","(","i",")",";">>
\* let i: int = 1; print(i--);
PrintDecrement ==
    <<"l","e","t"," ","i",":"," ","i","n","t"," ","="," ","1",";"," ","p","r","i","n","t","(","i","-",
    "-",")",";">>
\* let x: int = 0; let y: int = 0; x = y = 3; print(x);
ChainedAssign ==
    <<"l","e","t"," ","x",":"," ","i","n","t"," ","="," ","0",";"," ","l","e","t"," ","y",":"," ","i",
    "n","t"," ","="," ","0",";"," ","x"," ","="," ","y"," ","="," ","3",";"," ","p","r","i","n","t",
    "(","x",")",";">>
\* let a: int = 1; let b: int = 2; print(a + b = 3); print(b);
AssignInSum ==
    <<"l","e","t"," ","a",":"," ","i","n","t"," ","="," ","1",";"," ","l","e","t"," ","b",":"," ","i",
    "n","t"," ","="," ","2",";"," ","p","r","i","n","t","(","a"," ","+"," ","b"," ","="," ","3",")",
    ";"," ","p","r","i","n","t","(","b",")",";">>
\* function r(): int { let c: int = 1; return c = 4; } print(r());
AssignInReturn ==
    <<"f","u","n","c","t","i","o","n"," ","r","(",")",":"," ","i","n","t"," ","{"," ","l","e","t"," ",
    "c",":"," ","i","n","t"," ","="," ","1",";"," ","r","e","t","u","r","n"," ","c"," ","="," ","4",
    ";"," ","}"," ","p","r","i","n","t","(","r","(",")",")",";">>
\* let n: int = 0; while (n = 0) { print(n); }
AssignInCondition ==
    <<"l","e","t"," ","n",":"," ","i","n","t"," ","="," ","0",";"," ","w","h","i","l","e"," ","(","n",
    " ","="," ","0",")"," ","{"," ","p","r","i","n","t","(","n",")",";"," ","}">>
\* for (let s: int = 1; s < 3; s++) { print(s); } print(s);
IncrementStmt ==
    <<"f","o","r"," ","(","l","e","t"," ","s",":"," ","i","n","t"," ","="," ","1",";"," ","s"," ","<",
    " ","3",";"," ","s","+","+",")"," ","{"," ","p","r","i","n","t","(","s",")",";"," ","}"," ","p",
    "r","i","n","t","(","s",")",";">>
\* the texts of the binary operators
OperatorTexts ==
    {<<"+">>, <<"-">>, <<"*">>, <<"/">>, <<"<">>, <<">">>,
     <<"=", "=">>, <<"!", "=">>, <<"<", "=">>, <<">", "=">>}

\* print(1 op1 2 op2 3);
Chain(op1, op2) ==
    <<"p","r","i","n","t","(","1"," ">> \o op1 \o <<" ","2"," ">> \o op2 \o <<" ","3",")",";">>

Chains == {Chain(op1, op2) : op1 \in OperatorTexts, op2 \in OperatorTexts}

Programs ==
    {Canonical, EntrySource, Subtraction, Scope, Nested, Recursive, MainScope,
     ReturnFirst, ReturnInFor, ReturnInWhile, ReturnInEndless, ReturnAtTop,
     BadLetInBlock, BadLetInMain, BadLetAtTop, BadLetInFor, BadPrint, BadStatement,
     BadInBlock, BadName, BadString, BadType, CallAtTop, CallInBody, CallInLoop,
     CallInTopLoop, CallArgsAtTop, CallArgsInBody, CallNoArgsAtTop, CallNoArgsInBody,
     Unknown, UnknownTwoArgs, UnknownInPrint, UnknownInMain, UnknownAsArgument,
     UnknownAfterDecl, SemicolonOnNewLine, SemicolonFirst, CallOfCall, DivideByZero,
     Order,
     FaultBeforeMain,
     ParseFaultAfterMain,
     SevenByTwo,
     MinusSevenByTwo,
     NegativeDividend,
     NegativeDivisor,
     BothNegative,
     DivideOverflow,
     ForNoCondition,
     ForNoConditionInBody,
     ForOrder,
     ForOrderInBody,
     WithoutReturn,
     WithoutReturnVoid,
     WithoutReturnBool,
     WithoutReturnLoop,
     StmtReturn,
     StmtPrint,
     StmtLet,
     StmtAssign,
     StmtCall,
     StmtCallNoArgs,
     StmtCallTwo,
     StmtBare,
     StmtFor,
     StmtWhile,
     PrintIncrement,
     PrintDecrement,
     ChainedAssign,
     AssignInSum,
     AssignInReturn,
     AssignInCondition,
     IncrementStmt} \cup Chains

(***************************************************************************)
(* entry.cpp: the driver.  pc is "start" before the Parser is built,       *)
(* "loop" at the test of the while loop, "parsed" between parseTopLevel    *)
(* and the dispatch on the node, "done" at return 0, "failed" at return 1  *)
(* (an exception was caught), "crashed" when the process was killed and    *)
(* "running" when it never gets to an end.                                 *)
(***************************************************************************)
Main == <<"m","a","i","n">>

PrintLine(value) == [text |-> "", value |-> value]
MainReturned(value) == [text |-> "main() returned: ", value |-> value]

\* std::exception caught by the catch clause of main
Caught(e) == e \notin {NoErr, Diverged, Crashed, StillRunning}
\* where the driver is when the process dies or hangs
Dead(e) == IF e = Crashed THEN "crashed" ELSE "running"

\* the Parser and the Interpreter of the driver in the current state
TheParser(ub) == [lexer |-> lexer, currentToken |-> currentToken, err |-> NoErr, ub |-> ub]
TheInterpreter(ub) ==
    [variables |-> variables, functions |-> functions, output |-> output, trace |-> trace,
     fault |-> NoErr, ub |-> ub, depth |-> 0, steps |-> 0]

Init ==
    /\ lexer \in {Lexer(code) : code \in Programs}
    /\ token = NoToken
    /\ currentToken = NoToken
    /\ node = Null
    /\ functions = EmptyMap
    /\ variables = EmptyMap
    /\ output = <<>>
    /\ errout = <<>>
    /\ trace = <<>>
    /\ pc = "start"

\* Parser parser(lexer);
ConstructParser ==
    /\ pc = "start"
    /\ \E ub \in UBOutcomes :
         \E p \in {Parser(lexer, ub)} :
         /\ lexer' = p.lexer
         /\ currentToken' = p.currentToken
         /\ pc' = IF Failed(p) THEN Dead(p.err) ELSE "loop"
    /\ UNCHANGED <<token, node, functions, variables, output, errout, trace>>

\* auto node = parser.parseTopLevel();
ParseTopLevel ==
    /\ pc = "loop"
    /\ ~Parser_isAtEnd(TheParser([crash |-> TRUE, value |-> 0]))
    /\ \E ub \in UBOutcomes :
         \E r \in {parseTopLevel(TheParser(ub))} :
         /\ ~Failed(r.p)
         /\ lexer' = r.p.lexer
         /\ currentToken' = r.p.currentToken
         /\ node' = r.val
         /\ pc' = "parsed"
    /\ UNCHANGED <<token, functions, variables, output, errout, trace>>

\* parseTopLevel throws, or does not return
ParseFails ==
    /\ pc = "loop"
    /\ ~Parser_isAtEnd(TheParser([crash |-> TRUE, value |-> 0]))
    /\ \E ub \in UBOutcomes :
         \E r \in {parseTopLevel(TheParser(ub))} :
         /\ Failed(r.p)
         /\ lexer' = r.p.lexer
         /\ currentToken' = r.p.currentToken
         /\ errout' = IF Caught(r.p.err) THEN Append(errout, r.p.err) ELSE errout
         /\ pc' = IF Caught(r.p.err) THEN "failed" ELSE Dead(r.p.err)
    /\ UNCHANGED <<token, node, functions, variables, output, trace>>

\* a driver that runs a function as soon as it is declared
AddFunction_runsBody ==
    /\ pc = "parsed"
    /\ node.typeName = "FunctionDecl"
    /\ functions' = addFunction(functions, node.name, node)
    /\ \E ub \in UBOutcomes :
         \E r \in {execFunction(node, <<>>, TheInterpreter(ub))} :
         /\ variables' = r.st.variables
         /\ output' = r.st.output
         /\ trace' = r.st.trace
    /\ pc' = "loop"
    /\ UNCHANGED <<lexer, token, currentToken, node, errout>>

\* interp.addFunction(func->name, func);
AddFunction ==
    /\ pc = "parsed"
    /\ node.typeName = "FunctionDecl"
    /\ functions' = addFunction(functions, node.name, node)
    /\ pc' = "loop"
    /\ UNCHANGED <<lexer, token, currentToken, node, variables, output, errout, trace>>

\* interp.execStatement(node);
ExecStatement ==
    /\ pc = "parsed"
    /\ node.typeName # "FunctionDecl"
    /\ \E ub \in UBOutcomes :
         \E st \in {execStatement(node, TheInterpreter(ub))} :
         /\ ~Faulted(st)
         /\ variables' = st.variables
         /\ output' = st.output
         /\ trace' = st.trace
         /\ pc' = "loop"
    /\ UNCHANGED <<lexer, token, currentToken, node, functions, errout>>

\* execStatement throws, or does not return
ExecFails ==
    /\ pc = "parsed"
    /\ node.typeName # "FunctionDecl"
    /\ \E ub \in UBOutcomes :
         \E st \in {execStatement(node, TheInterpreter(ub))} :
         /\ Faulted(st)
         /\ variables' = st.variables
         /\ output' = st.output
         /\ trace' = st.trace
         /\ errout' = IF Caught(st.fault) THEN Append(errout, st.fault) ELSE errout
         /\ pc' = IF Caught(st.fault) THEN "failed" ELSE Dead(st.fault)
    /\ UNCHANGED <<lexer, token, currentToken, node, functions>>

\* int result = interp.callFunction("main", {}); std::cout << "main() returned: " << result
CallMain ==
    /\ pc = "loop"
    /\ Parser_isAtEnd(TheParser([crash |-> TRUE, value |-> 0]))
    /\ Main \in DOMAIN functions
    /\ \E ub \in UBOutcomes :
         \E r \in {callFunction(Main, <<>>, TheInterpreter(ub))} :
         /\ ~Faulted(r.st)
         /\ variables' = r.st.variables
         /\ output' = Append(r.st.output, MainReturned(r.val))
         /\ trace' = r.st.trace
         /\ pc' = "done"
    /\ UNCHANGED <<lexer, token, currentToken, node, functions, errout>>

\* callFunction("main", {}) throws, or does not return
MainFails ==
    /\ pc = "loop"
    /\ Parser_isAtEnd(TheParser([crash |-> TRUE, value |-> 0]))
    /\ Main \in DOMAIN functions
    /\ \E ub \in UBOutcomes :
         \E r \in {callFunction(Main, <<>>, TheInterpreter(ub))} :
         /\ Faulted(r.st)
         /\ variables' = r.st.variables
         /\ output' = r.st.output
         /\ trace' = r.st.trace
         /\ errout' = IF Caught(r.st.fault) THEN Append(errout, r.st.fault) ELSE errout
         /\ pc' = IF Caught(r.st.fault) THEN "failed" ELSE Dead(r.st.fault)
    /\ UNCHANGED <<lexer, token, currentToken, node, functions>>

\* no function named main was declared
NoMain ==
    /\ pc = "loop"
    /\ Parser_isAtEnd(TheParser([crash |-> TRUE, value |-> 0]))
    /\ Main \notin DOMAIN functions
    /\ pc' = "done"
    /\ UNCHANGED <<lexer, token, currentToken, node, functions, variables, output, errout, trace>>

Next ==
    \/ ConstructParser
    \/ ParseTopLevel
    \/ ParseFails
    \/ AddFunction
    \/ ExecStatement
    \/ ExecFails
    \/ CallMain
    \/ MainFails
    \/ NoMain

Spec == Init /\ [][Next]_vars

(***************************************************************************)
(* The interpreter on its own: a client that holds an Interpreter with a   *)
(* function table and an environment and calls evalExpr on an expression.  *)
(* pc is "eval" before the call, "evaluated" when it returned, and as in   *)
(* the driver when it did not.  The client appends to the history the      *)
(* value the call returned.                                                *)
(***************************************************************************)
Name(c) == <<c>>
IntType == <<"i","n","t">>
Var(c) == Identifier(1, 1, Name(c))
Num(value) == NumberLiteral(1, 1, value)
Call(c, args) == CallExpr(1, 1, Name(c), args)
Binary(op, left, right) == BinaryExpr(1, 1, op, left, right)

\* function g(n: int): int { print(n); return n; }
DeclG ==
    FunctionDecl(1, 1, Name("g"), << <<Name("n"), IntType>> >>, IntType,
                 << PrintStmt(1, 1, Var("n")), ReturnStmt(1, 1, Var("n")) >>)
\* function f(p: int): int { a = 5; let y: int = p; return a + y; }
DeclF ==
    FunctionDecl(1, 1, Name("f"), << <<Name("p"), IntType>> >>, IntType,
                 << AssignStmt(1, 1, Name("a"), Num(5)),
                    VarDecl(1, 1, Name("y"), IntType, Var("p")),
                    ReturnStmt(1, 1, Binary(<<"+">>, Var("a"), Var("y"))) >>)
\* function k(x: int, y: int): int { print(x); return x - y; }
DeclK ==
    FunctionDecl(1, 1, Name("k"), << <<Name("x"), IntType>>, <<Name("y"), IntType>> >>, IntType,
                 << PrintStmt(1, 1, Var("x")),
                    ReturnStmt(1, 1, Binary(<<"-">>, Var("x"), Var("y"))) >>)
\* function e(v: int): int { let w: int = v + 1; b = w; }
DeclE ==
    FunctionDecl(1, 1, Name("e"), << <<Name("v"), IntType>> >>, IntType,
                 << VarDecl(1, 1, Name("w"), IntType, Binary(<<"+">>, Var("v"), Num(1))),
                    AssignStmt(1, 1, Name("b"), Var("w")) >>)

\* function u(n: int): int { a = n; let m: int = n; return q; }
DeclU ==
    FunctionDecl(1, 1, Name("u"), << <<Name("n"), IntType>> >>, IntType,
                 << AssignStmt(1, 1, Name("a"), Var("n")),
                    VarDecl(1, 1, Name("m"), IntType, Var("n")),
                    ReturnStmt(1, 1, Var("q")) >>)
\* function w(n: int): int { b = n; return h(n); }
DeclW ==
    FunctionDecl(1, 1, Name("w"), << <<Name("n"), IntType>> >>, IntType,
                 << AssignStmt(1, 1, Name("b"), Var("n")),
                    ReturnStmt(1, 1, Call("h", <<Var("n")>>)) >>)
\* function m(n: int): int { return n % 2; }
DeclM ==
    FunctionDecl(1, 1, Name("m"), << <<Name("n"), IntType>> >>, IntType,
                 << ReturnStmt(1, 1, Binary(<<"%">>, Var("n"), Num(2))) >>)
\* function o(n: int): int { a = n; return u(7) + 1; }
DeclO ==
    FunctionDecl(1, 1, Name("o"), << <<Name("n"), IntType>> >>, IntType,
                 << AssignStmt(1, 1, Name("a"), Var("n")),
                    ReturnStmt(1, 1, Binary(<<"+">>, Call("u", <<Num(7)>>), Num(1))) >>)

FunctionTable ==
    addFunction(addFunction(addFunction(addFunction(
    addFunction(addFunction(addFunction(addFunction(EmptyMap,
        Name("g"), DeclG), Name("f"), DeclF), Name("k"), DeclK), Name("e"), DeclE),
        Name("u"), DeclU), Name("w"), DeclW), Name("m"), DeclM), Name("o"), DeclO)

\* the values of a and b
Values == {INT_MIN, -7, -1, 0, 1, 2, 7, INT_MAX}
Environment(a, b) == Put(Put(EmptyMap, Name("a"), a), Name("b"), b)
Environments == {Environment(a, b) : a \in Values, b \in Values}

\* the operator texts a BinaryExpr may carry: those the parser accepts and one more
EvalOperators == OperatorTexts \cup {<<"%">>}

\* a op b
Operations == {Binary(op, Var("a"), Var("b")) : op \in EvalOperators}

\* expressions whose operands write a line, fault, or call functions
Compound ==
    { Binary(<<"-">>, Call("g", <<Num(1)>>), Call("g", <<Num(2)>>)),
      Binary(<<"+">>, Var("q"), Call("g", <<Num(2)>>)),
      Binary(<<"+">>, Call("g", <<Num(1)>>), Var("q")),
      Binary(<<"=", "=">>, Call("g", <<Num(1)>>), Call("g", <<Num(2)>>)),
      Binary(<<"/">>, Num(7), Num(2)),
      Binary(<<"-">>, Var("a"), Binary(<<"-">>, Var("b"), Num(2))),
      Binary(<<"+">>, Call("f", <<Var("b")>>), Var("a")),
      Call("f", <<Num(2)>>),
      Call("e", <<Var("a")>>),
      Call("k", <<Call("g", <<Num(1)>>), Call("f", <<Num(2)>>)>>),
      Call("k", <<Num(1)>>),
      Call("k", <<>>),
      Call("g", <<Num(4), Num(9)>>),
      Call("h", <<Var("a")>>),
      Call("u", <<Num(3)>>),
      Call("w", <<Num(3)>>),
      Call("m", <<Num(3)>>),
      Call("o", <<Num(3)>>),
      Binary(<<"+">>, Call("e", <<Num(3)>>), Var("q")),
      Var("a"), Var("q"), Num(3),
      AssignStmt(1, 1, Name("a"), Num(3)),
      Null }

Expressions == Operations \cup Compound

EvalInit ==
    /\ lexer = Lexer(<<>>)
    /\ token = NoToken
    /\ currentToken = NoToken
    /\ node \in Expressions
    /\ functions = FunctionTable
    /\ variables \in Environments
    /\ output = <<>>
    /\ errout = <<>>
    /\ trace = <<>>
    /\ pc = "eval"

\* int value = interp.evalExpr(node);
Evaluate ==
    /\ pc = "eval"
    /\ \E ub \in UBOutcomes :
         \E r \in {evalExpr(node, TheInterpreter(ub))} :
         /\ ~Faulted(r.st)
         /\ variables' = r.st.variables
         /\ output' = r.st.output
         /\ functions' = r.st.functions
         /\ trace' = Append(r.st.trace, [ev |-> "value", value |-> r.val])
         /\ pc' = "evaluated"
    /\ UNCHANGED <<lexer, token, currentToken, node, errout>>

\* evalExpr throws, or does not return
EvaluateFails ==
    /\ pc = "eval"
    /\ \E ub \in UBOutcomes :
         \E r \in {evalExpr(node, TheInterpreter(ub))} :
         /\ Faulted(r.st)
         /\ variables' = r.st.variables
         /\ output' = r.st.output
         /\ trace' = r.st.trace
         /\ errout' = IF Caught(r.st.fault) THEN Append(errout, r.st.fault) ELSE errout
         /\ functions' = r.st.functions
         /\ pc' = IF Caught(r.st.fault) THEN "failed" ELSE Dead(r.st.fault)
    /\ UNCHANGED <<lexer, token, currentToken, node>>

EvalNext == Evaluate \/ EvaluateFails

EvalSpec == EvalInit /\ [][EvalNext]_vars

(***************************************************************************)
(* Claims about the lexer, checked under LexSpec.                          *)
(***************************************************************************)
\* a call of nextToken is about to be made
Calling == pc = "lexing" /\ token.type # "End"

\* the lexer where the next token starts
AtToken(l) == skipWhitespace(l)

\* the next token starts at a semicolon that stands right after a newline
SemicolonAfterNewline(l) ==
    LET s == AtToken(l) IN
    peek(s) = ";" /\ s.current >= 1 /\ s.source[s.current] = "\n"

\* the next token starts with the two characters a, b
StartsWith(l, a, b) == LET s == AtToken(l) IN peek(s) = a /\ peekNext(s) = b

\* C3: every nextToken call returns a token, never moves the cursor back, and
\* moves it forward by at least one character when the token is not End.
C3_NextTokenTerminatesAndAdvances ==
    [][Calling =>
        /\ pc' = "lexing"
        /\ lexer'.current >= lexer.current
        /\ (token'.type # "End" => lexer'.current > lexer.current)]_vars

\* C4: a semicolon right after a newline is skipped: the call returns the
\* token that follows the semicolon and no Semicolon token for it.
C4_SemicolonAfterNewlineSkipped ==
    [][(Calling /\ SemicolonAfterNewline(lexer)) =>
        /\ pc' = "lexing"
        /\ token' = nextToken(advance(AtToken(lexer)), 0).token]_vars

\* C5: the texts <=, >= and != are each one token, of kind LessEqual,
\* GreaterEqual and BangEqual.
C5_TwoCharacterComparisons ==
    [][Calling =>
        /\ StartsWith(lexer, "<", "=") =>
              token'.type = "LessEqual" /\ token'.lexeme = <<"<", "=">>
        /\ StartsWith(lexer, ">", "=") =>
              token'.type = "GreaterEqual" /\ token'.lexeme = <<">", "=">>
        /\ StartsWith(lexer, "!", "=") =>
              token'.type = "BangEqual" /\ token'.lexeme = <<"!", "=">>]_vars

(***************************************************************************)
(* Claims about the driver, the parser and the interpreter, checked under  *)
(* Spec.  trace is the history of the interpreter: the statements it       *)
(* started, the return statements it evaluated, the execFunction calls it  *)
(* entered and left.                                                       *)
(***************************************************************************)
\* the program the driver was started on
Running(program) == lexer.source = program

\* the driver has ended the way entry.cpp ends without return 0
Broken == pc \in {"failed", "crashed", "running"}

\* the execFunction calls that returned, in the order they returned
Exits == {i \in 1..Len(trace) : trace[i].ev = "exit"}

\* C1: a call that returns leaves the environment it was made in: a name first
\* bound during the call is absent again, a name reassigned during the call has
\* the value it had before the call.
C1_CallRestoresEnvironment ==
    \A i \in Exits :
        /\ DOMAIN trace[i].after = DOMAIN trace[i].before
        /\ \A name \in DOMAIN trace[i].before :
              trace[i].after[name] = trace[i].before[name]

\* a call of r made from a call of r returned, having bound a new name and
\* reassigned one that was bound before it
C1_Witness ==
    \E i \in Exits : \E j \in Exits :
        /\ i < j
        /\ trace[i].depth = 2 /\ trace[i].name = <<"r">>
        /\ trace[j].depth = 1 /\ trace[j].name = <<"r">>
        /\ DOMAIN trace[i].inside # DOMAIN trace[i].before
        /\ \E name \in DOMAIN trace[i].before :
              trace[i].inside[name] # trace[i].before[name]

\* C2: the first return statement executed in a call ends the call: the call is
\* left right after it, with the value of its expression.
C2_FirstReturnEndsCall ==
    \A i \in 1..Len(trace) :
        (trace[i].ev = "return" /\ trace[i].depth > 0) =>
            /\ i < Len(trace)
            /\ trace[i + 1].ev = "exit"
            /\ trace[i + 1].depth = trace[i].depth
            /\ trace[i + 1].value = trace[i].value

\* what the canonical program writes to std::cout
ZeroToNine == [i \in 1..10 |-> PrintLine(i - 1)]
CanonicalOutput == ZeroToNine \o <<MainReturned(0)>>

IsPrefix(s, t) == Len(s) <= Len(t) /\ s = SubSeq(t, 1, Len(s))

\* C6: the driver on the canonical program (as the specification writes it and
\* as entry.cpp holds it) ends without a fault, having written 0, 1, ..., 9 in
\* that order and then that main returned 0.
C6_CanonicalProgramPrintsZeroToNine ==
    (Running(Canonical) \/ Running(EntrySource)) =>
        /\ ~Broken
        /\ errout = <<>>
        /\ IsPrefix(output, CanonicalOutput)
        /\ pc = "done" => output = CanonicalOutput

C6_Witness ==
    /\ Running(Canonical)
    /\ pc = "done"
    /\ output = CanonicalOutput
    /\ Len(SelectSeq(trace, LAMBDA e : e.ev = "stmt" /\ e.typeName = "PrintStmt")) = 10

\* the tree n is the number v, the operator op applied to two trees
IsNumber(n, v) == n.typeName = "NumberLiteral" /\ n.value = v
IsBinary(n, op) == n.typeName = "BinaryExpr" /\ n.op = op

\* the tree n is op1(1, op2(2, 3))
GroupsToTheRight(n, op1, op2) ==
    /\ IsBinary(n, op1)
    /\ IsNumber(n.left, 1)
    /\ IsBinary(n.right, op2)
    /\ IsNumber(n.right.left, 2)
    /\ IsNumber(n.right.right, 3)

\* the driver is past the parse of the one statement of the program
PastTheParse == pc \notin {"start", "loop"} \/ (pc = "loop" /\ currentToken.type = "End")

\* C7: 1 op1 2 op2 3 parses to op1(1, op2(2, 3)) for every two binary operators,
\* and 1 - 2 - 3 evaluates to 2.
C7_OperatorsGroupToTheRight ==
    /\ \A op1 \in OperatorTexts : \A op2 \in OperatorTexts :
          (Running(Chain(op1, op2)) /\ PastTheParse) =>
              node.typeName = "PrintStmt" /\ GroupsToTheRight(node.expression, op1, op2)
    /\ (Running(Subtraction) /\ pc = "done") => output = <<PrintLine(2)>>

\* the lexemes of the failure tokens
FailureLexemes == {MsgUnexpectedCharacter, MsgUnterminatedString}

\* whether the tree n uses x as a name
RECURSIVE Named(_, _)
Named(n, x) ==
    CASE n.typeName = "FunctionDecl" ->
            \/ n.name = x
            \/ \E i \in DOMAIN n.params : n.params[i][1] = x
            \/ \E i \in DOMAIN n.body : Named(n.body[i], x)
      [] n.typeName \in {"VarDecl"} -> n.name = x \/ Named(n.initializer, x)
      [] n.typeName = "AssignStmt" -> n.name = x \/ Named(n.value, x)
      [] n.typeName = "Identifier" -> n.name = x
      [] n.typeName = "CallExpr" ->
            n.funcName = x \/ \E i \in DOMAIN n.args : Named(n.args[i], x)
      [] n.typeName \in {"ReturnStmt", "PrintStmt"} -> Named(n.expression, x)
      [] n.typeName = "ExpressionStmt" -> Named(n.expr, x)
      [] n.typeName = "BinaryExpr" -> Named(n.left, x) \/ Named(n.right, x)
      [] n.typeName = "ForStmt" ->
            \/ Named(n.init, x) \/ Named(n.condition, x) \/ Named(n.increment, x)
            \/ \E i \in DOMAIN n.body : Named(n.body[i], x)
      [] n.typeName = "WhileStmt" ->
            Named(n.condition, x) \/ \E i \in DOMAIN n.body : Named(n.body[i], x)
      [] n.typeName = "ForEachStmt" ->
            \/ n.varName = x \/ Named(n.iterable, x)
            \/ \E i \in DOMAIN n.body : Named(n.body[i], x)
      [] n.typeName = "IndexExpr" -> Named(n.array, x) \/ Named(n.index, x)
      [] n.typeName = "ArrayLiteral" -> \E i \in DOMAIN n.elements : Named(n.elements[i], x)
      [] OTHER -> FALSE

\* a character no token starts with stands before the current token: the lexer
\* has returned a failure token for it and the parser has taken the token after it
FailureTokenConsumed == \E i \in 1..lexer.start : lexer.source[i] = "@"

\* C8: a parse that takes a failure token fails there: no node is completed
\* after a failure token was consumed, and no node is named by its lexeme.
C8_FailureTokenFailsTheParse ==
    pc = "parsed" =>
        /\ ~FailureTokenConsumed
        /\ \A x \in FailureLexemes : ~Named(node, x)

\* the execFunction calls made so far: name and arguments, in the order made
IsCall(e) == e.ev = "call"
Called(name, args) == [ev |-> "call", name |-> name, args |-> args]
Calls ==
    LET calls == SelectSeq(trace, IsCall)
    IN [i \in 1..Len(calls) |-> Called(calls[i].name, calls[i].args)]

g5 == Called(<<"g">>, <<5>>)
g1 == Called(<<"g">>, <<1>>)
g2 == Called(<<"g">>, <<2>>)
k12 == Called(<<"k">>, <<1, 2>>)
z0 == Called(<<"z">>, <<>>)
main0 == Called(Main, <<>>)

\* the programs with a call statement, and the calls each is to make
CallStatements ==
    { <<CallAtTop, <<g5>> >>, <<CallInBody, <<main0, g5>> >>,
      <<CallInLoop, <<main0, g5>> >>, <<CallInTopLoop, <<g5>> >>,
      <<CallArgsAtTop, <<g1, g2, k12>> >>, <<CallArgsInBody, <<main0, g1, g2, k12>> >>,
      <<CallNoArgsAtTop, <<z0>> >>, <<CallNoArgsInBody, <<main0, z0>> >> }

\* C9: a call statement, at top level or in a function body or loop body,
\* evaluates its arguments left to right and calls the named function once.
C9_CallStatementCallsOnce ==
    \A c \in CallStatements :
        Running(c[1]) =>
            /\ ~Broken
            /\ pc = "done" => Calls = c[2]

\* names and argument lists callFunction is tried with
ProbeNames == {<<"n","o","s","u","c","h">>, <<"g">>, <<"h">>, Main, <<>>}
ProbeArguments == {<<>>, <<1>>, <<1, 2>>}

NotFound(name) == [what |-> "Function not found", name |-> name]

\* callFunction(name, args) in the current state of the interpreter throws the
\* fault that names the function and leaves the two maps and the output alone
FaultsNotFound(r, name) ==
    /\ r.st.fault = NotFound(name)
    /\ r.st.variables = variables
    /\ r.st.functions = functions
    /\ r.st.output = output

\* C10: callFunction with a name that is not in the function table throws a
\* fault that names the function, whatever the arguments, returns no value and
\* leaves the environment and the function table as they were.
C10_UnknownFunctionFaults ==
    /\ \A name \in ProbeNames \ DOMAIN functions :
          \A args \in ProbeArguments : \A ub \in UBOutcomes :
              FaultsNotFound(callFunction(name, args, TheInterpreter(ub)), name)
    /\ \A i \in 1..Len(trace) :
          trace[i].ev = "call" => trace[i].name \in DOMAIN functions

\* the driver called nosuch(x, 2) with x = 1 and reported the fault
C10_Witness ==
    /\ Running(UnknownTwoArgs)
    /\ pc = "failed"
    /\ errout = <<NotFound(<<"n","o","s","u","c","h">>)>>
    /\ variables = Put(EmptyMap, <<"x">>, 1)
    /\ output = <<>>

\* the driver has left main(): return 0, return 1 from the catch clause, or the
\* process died or hangs
Ended == pc \in {"done", "failed", "crashed", "running"}

\* the lines "main() returned: ..." written so far
MainReports == {i \in 1..Len(output) : output[i].text = "main() returned: "}

\* what the driver has made of main when it is over: one report after a run
\* without a fault that declared main, none otherwise
MainOnce ==
    /\ Cardinality(MainReports) <= 1
    /\ pc = "done" => errout = <<>>
    /\ pc = "done" /\ Main \in DOMAIN functions =>
          /\ MainReports = {Len(output)}
          /\ \E i \in 1..Len(trace) :
                trace[i] = [ev |-> "call", name |-> Main, args |-> <<>>, depth |-> 1]
    /\ pc # "done" \/ Main \notin DOMAIN functions => MainReports = {}

\* one step of the driver, in the order of the source
InSourceOrder ==
    /\ ~Ended
    /\ pc = "start" => UNCHANGED <<functions, variables, output, errout, trace>>
    /\ pc = "parsed" /\ node.typeName = "FunctionDecl" =>
          /\ functions' = Put(functions, node.name, node)
          /\ pc' = "loop"
          /\ UNCHANGED <<lexer, currentToken, variables, output, errout, trace>>
    /\ pc = "parsed" /\ node.typeName # "FunctionDecl" =>
          /\ UNCHANGED <<lexer, currentToken, functions>>
          /\ Len(trace') > Len(trace)
          /\ SubSeq(trace', 1, Len(trace)) = trace
          /\ trace'[Len(trace) + 1] =
                [ev |-> "stmt", typeName |-> node.typeName, depth |-> 0]
          /\ pc' = "loop" \/ Ended'
    /\ pc = "loop" /\ currentToken.type # "End" =>
          /\ UNCHANGED <<functions, variables, output, trace>>
          /\ pc' = "parsed" \/ Ended'
    /\ pc = "loop" /\ currentToken.type = "End" =>
          /\ UNCHANGED <<lexer, currentToken, functions>>
          /\ Ended'
          /\ (trace' # trace) = (Main \in DOMAIN functions)
          /\ trace' # trace =>
                /\ errout = <<>>
                /\ trace'[Len(trace) + 1] =
                      [ev |-> "call", name |-> Main, args |-> <<>>, depth |-> 1]
    /\ errout' # errout => pc' = "failed"

\* C11: the driver takes the top-level constructs in source order: a function
\* declaration only enters the function table, any other statement is executed
\* before the next construct is parsed, main is called once, without arguments,
\* at the end of the input of a run without a fault that declared it, and after
\* a fault nothing more is parsed, executed or called.
C11_DriverInSourceOrder == [][InSourceOrder /\ MainOnce']_vars

\* a statement, a declaration of main and another statement have been handled
\* in that order and main was called at the end
C11_Witness ==
    /\ Running(Order)
    /\ pc = "done"
    /\ output = <<PrintLine(1), PrintLine(2), PrintLine(3), MainReturned(0)>>

\* the line and the column, counted from 1, of the character at index pos
\* (counted from 0) of the buffer s
LineAt(s, pos) == 1 + Cardinality({i \in 1..pos : s[i] = "\n"})
ColumnAt(s, pos) ==
    LET breaks == {0} \cup {i \in 1..pos : s[i] = "\n"}
    IN pos + 1 - (CHOOSE b \in breaks : \A c \in breaks : c <= b)

\* where the run of letters, digits and underscores that begins at pos ends
RunEnd(s, pos) ==
    CHOOSE e \in pos..Len(s) :
       /\ \A i \in (pos + 1)..e : isAlphaNumeric(s[i])
       /\ e = Len(s) \/ ~isAlphaNumeric(s[e + 1])

\* the kind of a word: that of the reserved-word table, or Identifier
WordKinds == {kw[2] : kw \in keywords} \cup {"Identifier"}
KindOf(word) ==
    IF \E kw \in keywords : kw[1] = word
    THEN (CHOOSE kw \in keywords : kw[1] = word)[2]
    ELSE "Identifier"

\* the tokens of  let x: int = 1 + 2;
SrcLetTokens ==
    << Token("Let", <<"l","e","t">>, 1, 1),
       Token("Identifier", <<"x">>, 1, 5),
       Token("Colon", <<":">>, 1, 6),
       Token("Int", <<"i","n","t">>, 1, 8),
       Token("Equal", <<"=">>, 1, 12),
       Token("Number", <<"1">>, 1, 14),
       Token("Plus", <<"+">>, 1, 16),
       Token("Number", <<"2">>, 1, 18),
       Token("Semicolon", <<";">>, 1, 19),
       Token("End", <<>>, 1, 20) >>

\* the call of nextToken that has just returned gave the next token of SrcLetTokens
NextOfSrcLet ==
    \E k \in 1..Len(SrcLetTokens) :
       /\ token = IF k = 1 THEN NoToken ELSE SrcLetTokens[k - 1]
       /\ token' = SrcLetTokens[k]

\* a call of nextToken that returns: the token it gives is at the line and column
\* of its first character, and is a word exactly when that character is a letter
\* or an underscore: then it is the whole run, of the kind of the table
WordsAndPositions ==
    pc' = "lexing" =>
       LET s == lexer'.source
           b == lexer'.start
       IN /\ token'.line = LineAt(s, b)
          /\ token'.column = ColumnAt(s, b)
          /\ (token'.type \in WordKinds) = (b < Len(s) /\ isAlpha(s[b + 1]))
          /\ token'.type \in WordKinds =>
                /\ lexer'.current = RunEnd(s, b)
                /\ token'.lexeme = SubSeq(s, b + 1, RunEnd(s, b))
                /\ token'.type = KindOf(token'.lexeme)
          /\ Running(SrcLet) => NextOfSrcLet

\* C12: let x: int = 1 + 2; is tokenized as Let, Identifier x, Colon, Int, Equal,
\* Number 1, Plus, Number 2, Semicolon, End; a maximal run of letters, digits and
\* underscores that starts with a letter or an underscore is one token, of the
\* kind of the reserved word it is or else Identifier; every token has the line
\* and column, counted from 1, of its first character.
C12_WordsAndPositions == [][WordsAndPositions]_vars

\* the last token of let x: int = 1 + 2; has been returned
C12_Witness ==
    /\ Running(SrcLet)
    /\ token = Token("End", <<>>, 1, 20)
    /\ lexer.current = Len(SrcLet)

\* a reserved word that begins in column 3 of line 2 of its buffer has been returned
C12_WitnessWord ==
    /\ token.type = "While"
    /\ token.line = 2
    /\ token.column = 3

\* whether a closing quote that no backslash escapes stands at index i (counted
\* from 1) of the buffer s or after it
RECURSIVE ClosesFrom(_, _)
ClosesFrom(s, i) ==
    IF i > Len(s) THEN FALSE
    ELSE IF s[i] = "\\" THEN ClosesFrom(s, i + 2)
    ELSE IF s[i] = "\"" THEN TRUE
    ELSE ClosesFrom(s, i + 1)

\* the token of a string literal that is opened at index b (counted from 0) and
\* never closed
Unterminated(s, b) ==
    Token("Unexpected", MsgUnterminatedString, LineAt(s, b), ColumnAt(s, b))

\* one call of nextToken: a call that began at a quote returned, with the failure
\* token at the quote when the literal is not closed; the call after that token
\* returns End
OpenStringFails ==
    LET s == lexer'.source
        b == lexer'.start
    IN /\ b < Len(s) /\ s[b + 1] = "\"" => pc' = "lexing"
       /\ pc' = "lexing" /\ b < Len(s) /\ s[b + 1] = "\"" =>
             IF ClosesFrom(s, b + 2)
             THEN token'.type = "String"
             ELSE /\ token' = Unterminated(s, b)
                  /\ lexer'.current = Len(s)
       /\ token.type = "Unexpected" /\ token.lexeme = MsgUnterminatedString =>
             /\ pc' = "lexing"
             /\ token'.type = "End"

\* C13: when a string literal is opened and no unescaped quote closes it before
\* the end of the buffer, nextToken returns a failure token placed at the opening
\* quote, and the call after it returns End.
C13_OpenStringFails == [][OpenStringFails]_vars

\* the failure token of a literal that is opened in column 3 and runs over a line
\* end to the end of the buffer has been returned
C13_Witness ==
    /\ lexer.source = <<"x", " ", "\"", "a", "\n", "b">>
    /\ token = Token("Unexpected", MsgUnterminatedString, 1, 3)
    /\ lexer.current = 6

(***************************************************************************)
(* Claims about the interpreter, checked under EvalSpec.                   *)
(***************************************************************************)
\* the value the call of evalExpr returned
Value == trace[Len(trace)].value
\* the operands of a op b
OperandA == variables[Name("a")]
OperandB == variables[Name("b")]

\* v is a divided by b (b not 0), rounded toward zero: the remainder a - v * b is
\* smaller than b in magnitude and is 0 or has the sign of a
Truncates(a, b, v) ==
    LET r == a - v * b
    IN /\ IF b > 0 THEN -b < r /\ r < b ELSE b < r /\ (b = INT_MIN \/ r < -b)
       /\ r = 0 \/ (r < 0) = (a < 0)

\* evalExpr returned the value the operator has on a and b
Applied(op, a, b) ==
    /\ pc = "evaluated"
    /\ CASE op = <<"+">> -> ~AddOverflows(a, b) /\ Value = a + b
         [] op = <<"-">> -> ~SubOverflows(a, b) /\ Value = a - b
         [] op = <<"*">> -> ~MulOverflows(a, b) /\ Value = a * b
         [] op = <<"/">> -> ~(a = INT_MIN /\ b = -1) /\ Truncates(a, b, Value)
         [] op = <<"<">> -> Value = IF a < b THEN 1 ELSE 0
         [] op = <<"<", "=">> -> Value = IF a <= b THEN 1 ELSE 0
         [] op = <<">">> -> Value = IF a > b THEN 1 ELSE 0
         [] op = <<">", "=">> -> Value = IF a >= b THEN 1 ELSE 0

Supported == {<<"+">>, <<"-">>, <<"*">>, <<"/">>, <<"<">>, <<"<", "=">>, <<">">>, <<">", "=">>}
UnsupportedOperator(op) == [what |-> "Unsupported operator", op |-> op]
UndefinedVariable(c) == [what |-> "Undefined variable", name |-> Name(c)]

\* evalExpr ended with the exception e
Threw(e) == pc = "failed" /\ errout = <<e>>

\* a op b: the value of the operator, or the fault of an operator that has none;
\* nothing is said of a division by 0
OperatorApplied ==
    node \in Operations =>
       CASE node.op \in Supported /\ ~(node.op = <<"/">> /\ OperandB = 0) ->
                Applied(node.op, OperandA, OperandB)
         [] node.op \notin Supported -> Threw(UnsupportedOperator(node.op))
         [] OTHER -> TRUE

\* the left operand is evaluated, and has thrown if it throws, before the right
\* one is looked at
LeftBeforeRight ==
    /\ node = Binary(<<"-">>, Call("g", <<Num(1)>>), Call("g", <<Num(2)>>)) =>
          /\ pc = "evaluated"
          /\ output = <<PrintLine(1), PrintLine(2)>>
          /\ Value = -1
    /\ node = Binary(<<"+">>, Var("q"), Call("g", <<Num(2)>>)) =>
          Threw(UndefinedVariable("q")) /\ output = <<>>
    /\ node = Binary(<<"+">>, Call("g", <<Num(1)>>), Var("q")) =>
          Threw(UndefinedVariable("q")) /\ output = <<PrintLine(1)>>
    /\ node = Binary(<<"=", "=">>, Call("g", <<Num(1)>>), Call("g", <<Num(2)>>)) =>
          Threw(UnsupportedOperator(<<"=", "=">>)) /\ output = <<PrintLine(1), PrintLine(2)>>

\* C14: a binary expression evaluates its left operand, then its right one, and
\* gives the integer sum, difference, product or quotient of the two for + - * /,
\* 1 or 0 for < <= > >= as the comparison holds or not, for all int operands; any
\* other operator, == and != included, is an "unsupported operator" fault.
C14_BinaryOperators == pc # "eval" => OperatorApplied /\ LeftBeforeRight

\* the same for the operands whose exact result is an int
C14_WithinInt ==
    pc # "eval" =>
       /\ LeftBeforeRight
       /\ node \in Operations =>
             CASE node.op = <<"+">> /\ AddOverflows(OperandA, OperandB) -> TRUE
               [] node.op = <<"-">> /\ SubOverflows(OperandA, OperandB) -> TRUE
               [] node.op = <<"*">> /\ MulOverflows(OperandA, OperandB) -> TRUE
               [] node.op = <<"/">> /\ OperandA = INT_MIN /\ OperandB = -1 -> TRUE
               [] OTHER -> OperatorApplied

\* -7 / 2 has been evaluated to -3
C14_Witness ==
    /\ node = Binary(<<"/">>, Var("a"), Var("b"))
    /\ variables = Environment(-7, 2)
    /\ pc = "evaluated"
    /\ Value = -3

(***************************************************************************)
(* More claims about the driver, checked under Spec.                       *)
(***************************************************************************)
\* an operand that is a number or a variable of the environment, and its value
IsOperand(e) ==
    \/ e.typeName = "NumberLiteral"
    \/ e.typeName = "Identifier" /\ e.name \in DOMAIN variables
OperandValue(e) == IF e.typeName = "NumberLiteral" THEN e.value ELSE variables[e.name]

\* the statement about to be executed is print(a / b); with b not 0
PrintsQuotient ==
    /\ pc = "parsed"
    /\ node.typeName = "PrintStmt"
    /\ node.expression.typeName = "BinaryExpr"
    /\ node.expression.op = <<"/">>
    /\ IsOperand(node.expression.left)
    /\ IsOperand(node.expression.right)
    /\ OperandValue(node.expression.right) # 0

\* print(a / b); writes a / b rounded toward zero
QuotientPrinted ==
    PrintsQuotient =>
       /\ pc' = "loop"
       /\ Len(output') = Len(output) + 1
       /\ output'[Len(output')].text = ""
       /\ ~(OperandValue(node.expression.left) = INT_MIN
              /\ OperandValue(node.expression.right) = -1)
       /\ Truncates(OperandValue(node.expression.left),
                    OperandValue(node.expression.right),
                    output'[Len(output')].value)

\* the driver is past the only statement of the program
PastTheStatement == pc \notin {"start", "loop", "parsed"} \/ output # <<>>

\* what the two source texts print
SevenByTwoPrinted ==
    /\ Running(SevenByTwo) /\ PastTheStatement => ~Broken /\ output = <<PrintLine(3)>>
    /\ Running(MinusSevenByTwo) /\ PastTheStatement => ~Broken /\ output = <<PrintLine(-3)>>

\* C15: a / b is a divided by b rounded toward zero for every dividend and every
\* divisor other than 0, negative ones included; the source text 7 / 2 evaluates
\* to 3 and the source text -7 / 2 to -3.
C15_DivisionTruncates == [][QuotientPrinted /\ SevenByTwoPrinted']_vars

\* the same without the source text -7 / 2 and without the quotient of INT_MIN
\* and -1, which is no int
C15_TruncatesWithinInt ==
    [][/\ ~(PrintsQuotient /\ OperandValue(node.expression.left) = INT_MIN
              /\ OperandValue(node.expression.right) = -1) => QuotientPrinted
       /\ Running(SevenByTwo)' /\ PastTheStatement' => ~Broken' /\ output' = <<PrintLine(3)>>
      ]_vars

\* the lines written so far are the values vs in that order
Printed(vs) == output = [i \in 1..Len(vs) |-> PrintLine(vs[i])]
PrintedSoFar(vs) == IsPrefix(output, [i \in 1..Len(vs) |-> PrintLine(vs[i])])

\* the statements executed so far, by kind
Executed(kind) == {i \in 1..Len(trace) : trace[i].ev = "stmt" /\ trace[i].typeName = kind}

\* a for statement without a condition is about to be executed at top level
ForWithoutCondition ==
    pc = "parsed" /\ node.typeName = "ForStmt" /\ node.condition = Null

UnknownExpression == [what |-> "Unknown expression type"]

\* what t writes in  for (let i: int = t(0); t(10 + i) < 12; i = t(20 + i) - 19) { print(i); }
\* when the init runs once, the condition before each turn and the increment
\* after each body
ForOrderLines == <<0, 10, 0, 20, 11, 1, 21, 12>>

ForRuns ==
    /\ Running(ForNoCondition) \/ Running(ForNoConditionInBody) =>
          /\ output = <<>>
          /\ Executed("PrintStmt") = {}
          /\ pc \notin {"done", "crashed", "running"}
          /\ pc = "failed" => errout = <<UnknownExpression>> /\ Cardinality(Executed("VarDecl")) = 1
    /\ Running(ForOrder) =>
          /\ ~Broken
          /\ PrintedSoFar(ForOrderLines)
          /\ pc = "done" => Printed(ForOrderLines)
    /\ Running(ForOrderInBody) =>
          /\ ~Broken
          /\ pc # "done" => output = <<>>
          /\ pc = "done" => output = [i \in 1..Len(ForOrderLines) |-> PrintLine(ForOrderLines[i])]
                                       \o <<MainReturned(7)>>

\* C16: a for statement without a condition is not run as a loop: executing it is
\* a runtime fault and no statement of its body runs; with the three clauses
\* there, the init runs once, the condition is evaluated before every turn, the
\* first included, and the increment runs after each body.
C16_ForClauses ==
    [][/\ ForWithoutCondition => pc' = "failed" /\ output' = output
       /\ ForRuns']_vars

\* the for statement without a condition has faulted, inside main, after its init
C16_Witness ==
    /\ Running(ForNoConditionInBody)
    /\ pc = "failed"
    /\ errout = <<UnknownExpression>>
    /\ variables = Put(EmptyMap, <<"i">>, 0)
    /\ output = <<>>

\* the for statement with three clauses has run to its end
C16_WitnessOrder ==
    /\ Running(ForOrder)
    /\ pc = "done"
    /\ Printed(ForOrderLines)

(***************************************************************************)
(* More claims about the interpreter, checked under EvalSpec.              *)
(***************************************************************************)
\* the expression is a call of a declared function with fewer arguments than
\* the function has parameters
TooFewArguments ==
    /\ node.typeName = "CallExpr"
    /\ node.funcName \in DOMAIN functions
    /\ Len(node.args) < Len(functions[node.funcName].params)

\* the calls that returned, with the environment each had at the end of its body
ExitsOf(c) == {i \in 1..Len(trace) : trace[i].ev = "exit" /\ trace[i].name = Name(c)}

\* calls with as many arguments as parameters, or more: each parameter has the
\* value of the argument at its place
ParametersBound ==
    /\ node = Call("k", <<Call("g", <<Num(1)>>), Call("f", <<Num(2)>>)>>) =>
          /\ pc = "evaluated"
          /\ output = <<PrintLine(1), PrintLine(1)>>
          /\ Value = -6
          /\ \E i \in ExitsOf("k") :
                trace[i].inside[Name("x")] = 1 /\ trace[i].inside[Name("y")] = 7
    /\ node = Call("g", <<Num(4), Num(9)>>) =>
          /\ pc = "evaluated"
          /\ output = <<PrintLine(4)>>
          /\ Value = 4
          /\ \E i \in ExitsOf("g") : trace[i].inside[Name("n")] = 4

\* no statement of a function body was executed
NoBodyStatement == output = <<>> /\ \A i \in 1..Len(trace) : trace[i].ev # "stmt"

\* C17: a call with fewer arguments than the function has parameters fails before
\* any statement of the body is executed, and never runs the body with the
\* missing parameter unbound or given some value; a call with as many arguments
\* or more binds each parameter to the argument at its place.
C17_ArgumentsBound ==
    pc # "eval" =>
       /\ TooFewArguments => pc \in {"failed", "crashed"} /\ NoBodyStatement
       /\ ParametersBound

\* the calls with enough arguments alone
C17_EnoughArguments == pc # "eval" => ParametersBound

(***************************************************************************)
(* More claims about the driver, checked under Spec.                       *)
(***************************************************************************)
\* where the call that returned at j was made: the last call event of its depth
\* before j
CallOf(j) ==
    CHOOSE i \in 1..j :
       /\ trace[i].ev = "call" /\ trace[i].depth = trace[j].depth
       /\ \A k \in (i + 1)..j : ~(trace[k].ev = "call" /\ trace[k].depth = trace[j].depth)

\* the call that returned at j executed a return statement
ExecutedReturn(j) ==
    \E k \in CallOf(j)..j : trace[k].ev = "return" /\ trace[k].depth = trace[j].depth

\* C18: a call that gets to the end of the function body without having executed
\* a return statement returns 0, whatever the return type of the function and
\* whatever the body computed.
C18_NoReturnGivesZero ==
    \A j \in Exits : ~ExecutedReturn(j) => trace[j].value = 0

\* a function of return type int that computes and prints 5 and has no return
\* statement has been called, and 0 was printed for the call
C18_Witness ==
    /\ Running(WithoutReturn)
    /\ pc = "done"
    /\ output = <<PrintLine(5), PrintLine(0)>>
    /\ \E j \in Exits : ~ExecutedReturn(j) /\ trace[j].name = <<"e">>

\* programs that are one statement, by form
StatementsAlike == {StmtReturn, StmtPrint, StmtLet, StmtAssign, StmtFor, StmtWhile}
CallsAndNames == {StmtCall, StmtCallNoArgs, StmtCallTwo, StmtBare}

\* the driver is about to parse the statement the program consists of
AtTheStatement == pc = "loop" /\ trace = <<>> /\ lexer.start = 0

\* two parses accept or reject alike, and give the same node when they accept
SameParse(r1, r2) ==
    /\ Failed(r1.p) = Failed(r2.p)
    /\ ~Failed(r1.p) => r1.val = r2.val /\ r1.p.currentToken = r2.p.currentToken

\* the statement parsed as parseStatement does and as the loop of parseBlock does
ParsedAlike ==
    \A ub \in UBOutcomes :
       SameParse(parseStatement(TheParser(ub)), blockStatement(TheParser(ub)))

\* C19: a statement is parsed inside a block as it is at top level: for each of
\* return, print, let, assignment, call statement, bare identifier, for and
\* while the two accept or reject alike and build the same node when they accept.
C19_BlockParsesAsTopLevel ==
    AtTheStatement /\ lexer.source \in StatementsAlike \cup CallsAndNames => ParsedAlike

\* the same without the call statements and the bare identifier
C19_AlikeButCallsAndNames ==
    AtTheStatement /\ lexer.source \in StatementsAlike => ParsedAlike

(***************************************************************************)
(* The frame of evalExpr, checked under EvalSpec                           *)
(***************************************************************************)

\* the calls that returned during the evaluation
ReturnedCalls == {i \in 1..Len(trace) : trace[i].ev = "exit"}

\* a step in which evalExpr returns a value leaves the variables and the
\* function table as they were, and so did every call made on the way
NoLastingEffect ==
    pc' = "evaluated" =>
       /\ variables' = variables
       /\ functions' = functions
       /\ \A i \in 1..Len(trace') :
            trace'[i].ev = "exit" => trace'[i].after = trace'[i].before

\* C20: evaluating an expression has no lasting effect on the interpreter: after
\* an evalExpr that returns a value, calls of functions included, the variables
\* and the function table are what they were before the evaluation.
C20_EvalExprKeepsState == [][NoLastingEffect]_vars

\* f(b) + a has been evaluated: f assigned a and declared y and bound p while it
\* ran, and none of that is left
C20_Witness ==
    /\ pc = "evaluated"
    /\ node = Binary(<<"+">>, Call("f", <<Var("b")>>), Var("a"))
    /\ ReturnedCalls # {}
    /\ \A i \in ReturnedCalls :
         /\ trace[i].inside # trace[i].before
         /\ trace[i].after = variables
    /\ functions = FunctionTable

(***************************************************************************)
(* Faults inside a function body, checked under EvalSpec                   *)
(***************************************************************************)

\* the calls of execFunction that did not return
Entries(tr) == {i \in 1..Len(tr) : tr[i].ev = "call"}
Returns(tr) == {i \in 1..Len(tr) : tr[i].ev = "exit"}
OpenCalls(tr) == Cardinality(Entries(tr)) - Cardinality(Returns(tr))

RuntimeFaults ==
    {"Undefined variable", "Function not found", "Unsupported operator",
     "Unknown expression type"}

\* the evaluation ends with a runtime fault raised while a function body ran
FaultInBody ==
    /\ pc' = "failed"
    /\ errout'[Len(errout')].what \in RuntimeFaults
    /\ OpenCalls(trace') > 0

\* the evaluation ends with a runtime fault raised outside every function body
FaultOutsideBody ==
    /\ pc' = "failed"
    /\ errout'[Len(errout')].what \in RuntimeFaults
    /\ OpenCalls(trace') = 0

\* C21: when a function call ends with a runtime fault raised in its body, the
\* environment after the fault is the environment before the call: the bindings
\* of the parameters and the assignments of the failed call are not left behind.
C21_FaultRestoresEnvironment == [][FaultInBody => variables' = variables]_vars

\* a fault raised outside every body leaves the environment as it was, also when
\* calls that returned came before it
C21_FaultOutsideBodies == [][FaultOutsideBody => variables' = variables]_vars

\* u(3) has failed at its return statement and left n, m and a behind
C21_LeftBehind ==
    /\ pc = "failed"
    /\ node = Call("u", <<Num(3)>>)
    /\ errout = << [what |-> "Undefined variable", name |-> Name("q")] >>
    /\ \A c \in {Name("n"), Name("m"), Name("a")} :
          c \in DOMAIN variables /\ variables[c] = 3

(***************************************************************************)
(* Assignment forms in expression position, checked under Spec             *)
(***************************************************************************)

\* programs that evaluate an assignment form as an expression: the operand of
\* print, the value of an assignment, an operand of +, the value of return and
\* the condition of while
AssignmentForms ==
    {PrintIncrement, PrintDecrement, ChainedAssign, AssignInSum, AssignInReturn,
     AssignInCondition}

\* the variable the assignment form of the program names, and its new value
Target(program) ==
    CASE program = PrintIncrement -> <<Name("i"), 2>>
      [] program = PrintDecrement -> <<Name("i"), 0>>
      [] program = ChainedAssign -> <<Name("y"), 3>>
      [] program = AssignInSum -> <<Name("b"), 3>>
      [] program = AssignInReturn -> <<Name("c"), 4>>
      [] program = AssignInCondition -> <<Name("n"), 0>>

\* the statement about to be executed holds an assignment form as its expression
HoldsAssignment ==
    /\ pc = "parsed"
    /\ \/ node.typeName = "PrintStmt" /\ node.expression.typeName = "AssignStmt"
       \/ node.typeName = "AssignStmt" /\ node.value.typeName = "AssignStmt"

\* the run is over and the named variable holds the new value
Stored(program) ==
    pc = "done" /\ Target(program)[1] \in DOMAIN variables =>
       variables[Target(program)[1]] = Target(program)[2]

\* C22: an assignment form the parser accepts in expression position (a trailing
\* =, ++ or --) is evaluated where an expression is evaluated: it raises no
\* runtime fault when the variables it reads are defined, and the run gets past it
\* with the new value stored in the named variable.
C22_AssignmentEvaluates ==
    lexer.source \in AssignmentForms =>
       /\ errout = <<>>
       /\ pc \notin {"failed", "crashed"}
       /\ Stored(lexer.source)

\* the parser accepted print(i++): the operand of print is the assignment
\* i = i + 1
C22_Accepted ==
    /\ Running(PrintIncrement)
    /\ HoldsAssignment
    /\ node.expression.name = Name("i")
    /\ node.expression.value.typeName = "BinaryExpr"
    /\ node.expression.value.op = <<"+">>

\* evaluating it raised the fault of an unknown expression, and i is still 1
C22_Faulted ==
    /\ Running(PrintIncrement)
    /\ pc = "failed"
    /\ errout = <<UnknownExpression>>
    /\ output = <<>>
    /\ variables[Name("i")] = 1

\* the same forms as the increment of a for statement are executed as statements
\* and do store
C22_AsStatement ==
    /\ Running(IncrementStmt)
    /\ pc = "done"
    /\ output = <<PrintLine(1), PrintLine(2), PrintLine(3)>>

====
